---- MODULE Spec2Model ----
(***************************************************************************)
(* State-machine model of the DataTable component (data-table.tsx) and of  *)
(* the column-type registry (column-types.ts).                             *)
(*                                                                         *)
(* Strings are sequences of one-character strings, so that trim, template  *)
(* literals and includes/indexOf are computed, not assumed.  A cell value  *)
(* is a tagged record [t, s, n, b] standing for a JavaScript string,       *)
(* number, boolean, null or undefined.  A row is a function from its own keys    *)
(* (strings) to values; the row identifier is the entry under "id", which  *)
(* lives in the same key space as the column entries.                      *)
(***************************************************************************)
EXTENDS Integers, Sequences, FiniteSets, TLC

VARIABLES columnConfigs, rows, sorting, columnVisibility, rowSelection,
          aggregateModes, pendingAction, dialogInput, dialogType,
          dialogOptions, newOptionValue, uuidCounter, steps, lastOp,
          formatCall

vars == <<columnConfigs, rows, sorting, columnVisibility, rowSelection,
          aggregateModes, pendingAction, dialogInput, dialogType,
          dialogOptions, newOptionValue, uuidCounter, steps, lastOp,
          formatCall>>

modelVars == <<columnConfigs, rows>>
viewVars == <<sorting, columnVisibility, rowSelection, aggregateModes>>
dialogVars == <<pendingAction, dialogInput, dialogType, dialogOptions,
                newOptionValue>>

-----------------------------------------------------------------------------
(* Bounds *)

MaxSteps == 3

-----------------------------------------------------------------------------
(* String literals *)

EmptyStr == <<>>
S_id == <<"i", "d">>
S_status == <<"s", "t", "a", "t", "u", "s">>
S_email == <<"e", "m", "a", "i", "l">>
S_amount == <<"a", "m", "o", "u", "n", "t">>
S_pending == <<"p", "e", "n", "d", "i", "n", "g">>
S_mail == <<"m", "@", "x">>
S_r1 == <<"7", "2", "8">>
S_r2 == <<"r", "2">>
S_ghost == <<"g", "h", "o", "s", "t">>
S_true == <<"t", "r", "u", "e">>
S_false == <<"f", "a", "l", "s", "e">>
S_undefined == <<"u", "n", "d", "e", "f", "i", "n", "e", "d">>
S_null == <<"n", "u", "l", "l">>
S_copyOpen == <<" ", "(", "c", "o", "p", "y">>
S_uuid == <<"u", "u", "-">>

-----------------------------------------------------------------------------
(* JavaScript values *)

Str(s) == [t |-> "string", s |-> s, n |-> 0, b |-> FALSE]
Num(n) == [t |-> "number", s |-> EmptyStr, n |-> n, b |-> FALSE]
Bool(b) == [t |-> "boolean", s |-> EmptyStr, n |-> 0, b |-> b]
Undefined == [t |-> "undefined", s |-> EmptyStr, n |-> 0, b |-> FALSE]
Null == [t |-> "null", s |-> EmptyStr, n |-> 0, b |-> FALSE]

DigitChar(d) == <<"0", "1", "2", "3", "4", "5", "6", "7", "8", "9">>[d + 1]

RECURSIVE NatToString(_)
NatToString(n) ==
    IF n < 10 THEN <<DigitChar(n)>>
    ELSE NatToString(n \div 10) \o <<DigitChar(n % 10)>>

IntToString(n) == IF n < 0 THEN <<"-">> \o NatToString(0 - n) ELSE NatToString(n)

\* String(value)
StringOf(v) ==
    CASE v.t = "string" -> v.s
      [] v.t = "number" -> IntToString(v.n)
      [] v.t = "boolean" -> (IF v.b THEN S_true ELSE S_false)
      [] v.t = "null" -> S_null
      [] OTHER -> S_undefined

IsWhitespace(c) == c \in {" ", "\t", "\n"}

RECURSIVE TrimStart(_)
TrimStart(s) ==
    IF s # <<>> /\ IsWhitespace(Head(s)) THEN TrimStart(Tail(s)) ELSE s

RECURSIVE TrimEnd(_)
TrimEnd(s) ==
    IF s # <<>> /\ IsWhitespace(s[Len(s)]) THEN TrimEnd(SubSeq(s, 1, Len(s) - 1)) ELSE s

\* String.prototype.trim
Trim(s) == TrimEnd(TrimStart(s))

-----------------------------------------------------------------------------
(* column-types.ts *)

COLUMN_TYPES == <<"text", "long_text", "checkbox", "select", "date",
                  "number", "phone", "email", "currency", "percent">>

ColumnType == {COLUMN_TYPES[i] : i \in 1..Len(COLUMN_TYPES)}

COLUMN_TYPE_LABELS ==
    [ty \in ColumnType |->
        CASE ty = "text" -> <<"T", "e", "x", "t">>
          [] ty = "long_text" -> <<"L", "o", "n", "g", " ", "t", "e", "x", "t">>
          [] ty = "checkbox" -> <<"C", "h", "e", "c", "k", "b", "o", "x">>
          [] ty = "select" -> <<"S", "e", "l", "e", "c", "t">>
          [] ty = "date" -> <<"D", "a", "t", "e">>
          [] ty = "number" -> <<"N", "u", "m", "b", "e", "r">>
          [] ty = "phone" -> <<"P", "h", "o", "n", "e", " ", "n", "u", "m", "b", "e", "r">>
          [] ty = "email" -> <<"E", "m", "a", "i", "l">>
          [] ty = "currency" -> <<"C", "u", "r", "r", "e", "n", "c", "y">>
          [] ty = "percent" -> <<"P", "e", "r", "c", "e", "n", "t">>]

\* mutant: the numeric types start at 0
getDefaultValue_NumericZero(type) ==
    CASE type = "checkbox" -> Bool(FALSE)
      [] type \in {"number", "currency", "percent"} -> Num(0)
      [] OTHER -> Str(EmptyStr)

getDefaultValue(type) ==
    CASE type = "checkbox" -> Bool(FALSE)
      [] type \in {"number", "currency", "percent"} -> Str(EmptyStr)
      [] OTHER -> Str(EmptyStr)

-----------------------------------------------------------------------------
(* Arrays and objects *)

\* Array.prototype.includes
Includes(arr, x) == \E i \in 1..Len(arr) : arr[i] = x

\* Array.prototype.indexOf: 0-based index of the first occurrence, or -1
IndexOf(arr, x) ==
    IF Includes(arr, x)
    THEN (CHOOSE i \in 1..Len(arr) :
              arr[i] = x /\ \A j \in 1..(i - 1) : arr[j] # x) - 1
    ELSE -1

\* arr.slice(0, n) and arr.slice(n) for 0 <= n
SliceTo(arr, n) == SubSeq(arr, 1, IF n > Len(arr) THEN Len(arr) ELSE n)
SliceFrom(arr, n) == SubSeq(arr, n + 1, Len(arr))

\* row[key]
Get(row, key) == IF key \in DOMAIN row THEN row[key] ELSE Undefined

\* { ...row, [key]: value }
Put(row, key, value) ==
    [k \in (DOMAIN row) \cup {key} |-> IF k = key THEN value ELSE row[k]]

\* const { [key]: value, ...rest } = row
Rest(row, key) == [k \in (DOMAIN row) \ {key} |-> row[k]]

\* a ?? b
Coalesce(a, b) == IF a = Undefined THEN b ELSE a

-----------------------------------------------------------------------------
(* Column configs *)

Config(key, type, hasOptions, options) ==
    [key |-> key, type |-> type, hasOptions |-> hasOptions, options |-> options]

\* const columnKeys = useMemo(() => columnConfigs.map((c) => c.key), ...)
columnKeys == [i \in 1..Len(columnConfigs) |-> columnConfigs[i].key]

FindConfig(key) ==
    IF Includes(columnKeys, key)
    THEN columnConfigs[IndexOf(columnKeys, key) + 1]
    ELSE Config(EmptyStr, "text", FALSE, <<>>)

initialColumns ==
    << Config(S_status, "text", FALSE, <<>>),
       Config(S_email, "email", FALSE, <<>>),
       Config(S_amount, "currency", FALSE, <<>>) >>

\* getRowId: (row) => String(row.id ?? "")
getRowId(row) == StringOf(Coalesce(Get(row, S_id), Str(EmptyStr)))


EmptyObject == [k \in {} |-> Undefined]

\* the row returned by getData() in page.tsx
demoRow ==
    Put(Put(Put(Put(EmptyObject, S_id, Str(S_r1)), S_amount, Num(100)),
            S_status, Str(S_pending)), S_email, Str(S_mail))

\* DataTableProps: the table of page.tsx, a second caller-supplied table with
\* a select column, a table that has rows but no columns yet, and a table that
\* shows the id field of its row as a column
S_Tag == <<"T", "a", "g">>
S_note == <<"n", "o", "t", "e">>

otherColumns ==
    << Config(COLUMN_TYPE_LABELS["text"], "text", FALSE, <<>>),
       Config(S_Tag, "select", TRUE, << <<"A">>, <<"B">> >>) >>

otherData ==
    << Put(Put(Put(EmptyObject, S_id, Str(S_r2)), COLUMN_TYPE_LABELS["text"],
               Str(S_note)), S_Tag, Str(<<"A">>)) >>

bareData ==
    << Put(EmptyObject, S_id, Str(S_r1)), Put(EmptyObject, S_id, Str(S_r2)) >>

idColumns == << Config(S_id, "text", FALSE, <<>>) >>

idData == << Put(EmptyObject, S_id, Str(S_r1)) >>

InitialTables ==
    { [initialColumns |-> initialColumns, data |-> <<demoRow>>],
      [initialColumns |-> otherColumns, data |-> otherData],
      [initialColumns |-> <<>>, data |-> bareData],
      [initialColumns |-> idColumns, data |-> idData] }

\* formatCellValue has not been called: its arguments, whether the runtime's
\* time zone is west of UTC, and the text returned
NoFormatCall == [value |-> Undefined, type |-> "text", west |-> FALSE,
                 called |-> FALSE, result |-> EmptyStr]

NoAction == [type |-> "none", key |-> EmptyStr, side |-> "right"]
EditAction(key) == [type |-> "edit", key |-> key, side |-> "right"]
InsertAction(key, side) == [type |-> "insert", key |-> key, side |-> side]

-----------------------------------------------------------------------------
(* Inputs *)

\* keys a column action may be called with: the rendered columns and one
\* key that names no column
ColumnKeySet == {columnKeys[i] : i \in 1..Len(columnKeys)}
ActionKeys == ColumnKeySet \cup {S_ghost}

\* texts typed into the name field of the dialog
DialogInputs ==
    { <<" ">>, <<" ">> \o S_id \o <<" ">>, <<" ">> \o S_email,
      <<"P", "h", "o", "n", "e", " ">> }

\* types picked in the dialog and in the quick-add menu
DialogTypes == {"checkbox", "select", "number"}
QuickAddTypes == {"text", "checkbox", "select"}

\* texts typed into the new-option field
OptionInputs == { <<"A", " ">>, <<"C">> }

AggregateMode == {"sum", "average", "median"}

-----------------------------------------------------------------------------
(* Initial state: useState(...) in DataTable *)

TableInit(tables) ==
    /\ \E props \in tables :
          /\ columnConfigs = props.initialColumns
          /\ rows = props.data
    /\ sorting = <<>>
    /\ columnVisibility = EmptyObject
    /\ rowSelection = {}
    /\ aggregateModes = EmptyObject
    /\ pendingAction = NoAction
    /\ dialogInput = EmptyStr
    /\ dialogType = "text"
    /\ dialogOptions = <<>>
    /\ newOptionValue = EmptyStr
    /\ uuidCounter = 1
    /\ steps = 0
    /\ lastOp = [op |-> "init", key |-> EmptyStr, side |-> "right",
                 name |-> EmptyStr, ok |-> FALSE]

InitWith(tables) == TableInit(tables) /\ formatCall = NoFormatCall

Init == InitWith(InitialTables)

\* bookkeeping of the call that produced the current state
CanCall == steps < MaxSteps

\* (side is the side of the pending action of a dialog submit)
Called(op, key, name, ok) ==
    /\ steps' = steps + 1
    /\ lastOp' = [op |-> op, key |-> key,
                  side |-> (IF op = "insertColumn" THEN pendingAction.side ELSE "right"),
                  name |-> name, ok |-> ok]
    /\ UNCHANGED formatCall

-----------------------------------------------------------------------------
(* Dialog *)

\* mutant: the edit dialog opens with the type text and no options
openDialog_BlankEdit(action, overrideType) ==
    /\ pendingAction' = action
    /\ IF action.type = "edit"
       THEN /\ dialogInput' = action.key
            /\ dialogType' = "text"
            /\ dialogOptions' = <<>>
       ELSE /\ dialogInput' = COLUMN_TYPE_LABELS[overrideType]
            /\ dialogType' = overrideType
            /\ dialogOptions' = <<>>
    /\ newOptionValue' = EmptyStr

openDialog(action, overrideType) ==
    /\ pendingAction' = action
    /\ IF action.type = "edit"
       THEN /\ dialogInput' = action.key
            /\ dialogType' = (IF Includes(columnKeys, action.key)
                              THEN FindConfig(action.key).type ELSE "text")
            /\ dialogOptions' = (IF Includes(columnKeys, action.key)
                                    /\ FindConfig(action.key).hasOptions
                                 THEN FindConfig(action.key).options ELSE <<>>)
       ELSE /\ dialogInput' = COLUMN_TYPE_LABELS[overrideType]
            /\ dialogType' = overrideType
            /\ dialogOptions' = <<>>
    /\ newOptionValue' = EmptyStr

\* mutant: closing keeps the type that was picked
closeDialog_KeepsType ==
    /\ pendingAction' = NoAction
    /\ dialogInput' = EmptyStr
    /\ dialogType' = dialogType
    /\ dialogOptions' = <<>>
    /\ newOptionValue' = EmptyStr

closeDialog ==
    /\ pendingAction' = NoAction
    /\ dialogInput' = EmptyStr
    /\ dialogType' = "text"
    /\ dialogOptions' = <<>>
    /\ newOptionValue' = EmptyStr

OnEdit(key) ==
    /\ CanCall
    /\ openDialog(EditAction(key), "text")
    /\ Called("onEdit", key, EmptyStr, TRUE)
    /\ UNCHANGED <<modelVars, viewVars, uuidCounter>>

OnInsertLeft(key) ==
    /\ CanCall
    /\ openDialog(InsertAction(key, "left"), "text")
    /\ Called("onInsertLeft", key, EmptyStr, TRUE)
    /\ UNCHANGED <<modelVars, viewVars, uuidCounter>>

OnInsertRight(key) ==
    /\ CanCall
    /\ openDialog(InsertAction(key, "right"), "text")
    /\ Called("onInsertRight", key, EmptyStr, TRUE)
    /\ UNCHANGED <<modelVars, viewVars, uuidCounter>>

\* Dialog onOpenChange(false) and the Cancel button
CancelDialog ==
    /\ CanCall
    /\ pendingAction # NoAction
    /\ closeDialog
    /\ Called("closeDialog", EmptyStr, EmptyStr, TRUE)
    /\ UNCHANGED <<modelVars, viewVars, uuidCounter>>

\* name field onChange
SetDialogInput(text) ==
    /\ CanCall
    /\ pendingAction # NoAction
    /\ dialogInput' = text
    /\ Called("setDialogInput", EmptyStr, text, TRUE)
    /\ UNCHANGED <<modelVars, viewVars, uuidCounter, pendingAction,
                   dialogType, dialogOptions, newOptionValue>>

IsLabel(text) == \E ty \in ColumnType : COLUMN_TYPE_LABELS[ty] = text

\* type Select onValueChange
SetDialogType(ty) ==
    /\ CanCall
    /\ pendingAction # NoAction
    /\ dialogType' = ty
    /\ dialogInput' =
          (IF (IsLabel(dialogInput) \/ Trim(dialogInput) = EmptyStr)
              /\ pendingAction.type # "edit"
           THEN COLUMN_TYPE_LABELS[ty] ELSE dialogInput)
    /\ Called("setDialogType", EmptyStr, EmptyStr, TRUE)
    /\ UNCHANGED <<modelVars, viewVars, uuidCounter, pendingAction,
                   dialogOptions, newOptionValue>>

\* new-option field onChange
SetNewOptionValue(text) ==
    /\ CanCall
    /\ pendingAction # NoAction
    /\ dialogType = "select"
    /\ newOptionValue' = text
    /\ Called("setNewOptionValue", EmptyStr, text, TRUE)
    /\ UNCHANGED <<modelVars, viewVars, uuidCounter, pendingAction,
                   dialogInput, dialogType, dialogOptions>>

\* Add button / Enter in the new-option field
AddOption ==
    /\ CanCall
    /\ pendingAction # NoAction
    /\ dialogType = "select"
    /\ LET v == Trim(newOptionValue)
           accepted == v # EmptyStr /\ ~Includes(dialogOptions, v)
       IN /\ dialogOptions' = (IF accepted THEN Append(dialogOptions, v)
                               ELSE dialogOptions)
          /\ newOptionValue' = (IF accepted THEN EmptyStr ELSE newOptionValue)
          /\ Called("addOption", EmptyStr, v, accepted)
    /\ UNCHANGED <<modelVars, viewVars, uuidCounter, pendingAction,
                   dialogInput, dialogType>>

\* Remove button of option j (0-based)
RemoveOption(j) ==
    /\ CanCall
    /\ pendingAction # NoAction
    /\ dialogType = "select"
    /\ j \in 0..(Len(dialogOptions) - 1)
    /\ dialogOptions' = SliceTo(dialogOptions, j) \o SliceFrom(dialogOptions, j + 1)
    /\ Called("removeOption", EmptyStr, dialogOptions[j + 1], TRUE)
    /\ UNCHANGED <<modelVars, viewVars, uuidCounter, pendingAction,
                   dialogInput, dialogType, newOptionValue>>

-----------------------------------------------------------------------------
(* handleDialogSubmit *)

\* mutant: the edited column is moved to the end of the order
EditConfigs_MoveToEnd(prev, oldKey, name, nameChanged, type, options) ==
    SelectSeq(prev, LAMBDA c : c.key # oldKey)
    \o [i \in 1..Len(SelectSeq(prev, LAMBDA c : c.key = oldKey)) |->
           Config(IF nameChanged THEN name ELSE oldKey, type, type = "select",
                  IF type = "select" THEN options ELSE <<>>)]

\* mutant: the options of the dialog are stored whatever the type
EditConfigs_KeepsOptions(prev, oldKey, name, nameChanged, type, options) ==
    [i \in 1..Len(prev) |->
        IF prev[i].key # oldKey THEN prev[i]
        ELSE Config(IF nameChanged THEN name ELSE prev[i].key,
                    type, options # <<>>, options)]

\* prev.map((c) => c.key !== oldKey ? c : {...c, key, type, options})
EditConfigs(prev, oldKey, name, nameChanged, type, options) ==
    [i \in 1..Len(prev) |->
        IF prev[i].key # oldKey THEN prev[i]
        ELSE Config(IF nameChanged THEN name ELSE prev[i].key,
                    type,
                    type = "select",
                    IF type = "select" THEN options ELSE <<>>)]

\* mutant: the entry under oldKey is copied, not moved
RenameRows_KeepOld(prev, oldKey, name) ==
    [i \in 1..Len(prev) |-> Put(prev[i], name, Get(prev[i], oldKey))]

\* prev.map((row) => { const {[oldKey]: value, ...rest} = row; return {...rest, [name]: value} })
RenameRows(prev, oldKey, name) ==
    [i \in 1..Len(prev) |-> Put(Rest(prev[i], oldKey), name, Get(prev[i], oldKey))]

\* [...prev.slice(0, idx), newConfig, ...prev.slice(idx)]
InsertAt(prev, idx, newConfig) ==
    SliceTo(prev, idx) \o <<newConfig>> \o SliceFrom(prev, idx)

\* mutant: the side is ignored
InsertIdx_IgnoreSide(action) ==
    LET idx == IF action.key # EmptyStr THEN IndexOf(columnKeys, action.key) ELSE -1
    IN IF idx = -1 THEN Len(columnKeys) ELSE idx + 1

\* mutant: a missing anchor inserts at the front
InsertIdx_AbsentAtFront(action) ==
    LET idx == IF action.key # EmptyStr THEN IndexOf(columnKeys, action.key) ELSE -1
    IN IF idx = -1 THEN 0
       ELSE (IF action.side = "left" THEN idx ELSE idx + 1)

InsertIdx(action) ==
    LET idx == IF action.key # EmptyStr THEN IndexOf(columnKeys, action.key) ELSE -1
    IN IF idx = -1 THEN Len(columnKeys)
       ELSE (IF action.side = "left" THEN idx ELSE idx + 1)

\* mutant: the rows are not filled
FillRows_NoFill(prev, name, value) == prev

\* mutant: an entry the row already has under the name is kept
FillRows_KeepExisting(prev, name, value) ==
    [i \in 1..Len(prev) |->
        IF name \in DOMAIN prev[i] THEN prev[i] ELSE Put(prev[i], name, value)]

\* mutant: the filled rows come out last row first
FillRows_LastFirst(prev, name, value) ==
    [i \in 1..Len(prev) |-> Put(prev[Len(prev) + 1 - i], name, value)]

\* prev.map((row) => ({...row, [name]: value}))
FillRows(prev, name, value) ==
    [i \in 1..Len(prev) |-> Put(prev[i], name, value)]

\* mutant: an insert is checked against the visible columns only
SubmitRejected_VisibleOnly ==
    LET name == Trim(dialogInput)
    IN \/ pendingAction = NoAction
       \/ name = EmptyStr
       \/ /\ pendingAction.type = "edit"
          /\ name # pendingAction.key
          /\ Includes(columnKeys, name)
       \/ /\ pendingAction.type = "insert"
          /\ Includes(columnKeys, name)
          /\ ~(name \in DOMAIN columnVisibility /\ columnVisibility[name] = FALSE)

\* mutant: an edit is not checked for a collision
SubmitRejected_NoEditCollision ==
    LET name == Trim(dialogInput)
    IN \/ pendingAction = NoAction
       \/ name = EmptyStr
       \/ /\ pendingAction.type = "insert"
          /\ Includes(columnKeys, name)

SubmitRejected ==
    LET name == Trim(dialogInput)
    IN \/ pendingAction = NoAction
       \/ name = EmptyStr
       \/ /\ pendingAction.type = "edit"
          /\ name # pendingAction.key
          /\ Includes(columnKeys, name)
       \/ /\ pendingAction.type = "insert"
          /\ Includes(columnKeys, name)

\* the operation a submit stands for: edit is renameColumn, insert is insertColumn
SubmitOp ==
    CASE pendingAction.type = "edit" -> "renameColumn"
      [] pendingAction.type = "insert" -> "insertColumn"
      [] OTHER -> "submit"

HandleDialogSubmit ==
    LET name == Trim(dialogInput)
        oldKey == pendingAction.key
        nameChanged == name # oldKey
    IN CanCall /\
       IF SubmitRejected
       THEN /\ Called(SubmitOp, oldKey, name, FALSE)
            /\ UNCHANGED <<modelVars, viewVars, dialogVars, uuidCounter>>
       ELSE /\ IF pendingAction.type = "edit"
               THEN /\ columnConfigs' = EditConfigs(columnConfigs, oldKey, name,
                                            nameChanged, dialogType, dialogOptions)
                    /\ rows' = (IF nameChanged THEN RenameRows(rows, oldKey, name)
                                ELSE rows)
               ELSE /\ columnConfigs' =
                          InsertAt(columnConfigs, InsertIdx(pendingAction),
                                   Config(name, dialogType, dialogType = "select",
                                          IF dialogType = "select" THEN dialogOptions
                                          ELSE <<>>))
                    /\ rows' = FillRows(rows, name, getDefaultValue(dialogType))
            /\ closeDialog
            /\ Called(SubmitOp, oldKey, name, TRUE)
            /\ UNCHANGED <<viewVars, uuidCounter>>

-----------------------------------------------------------------------------
(* handleQuickAdd *)

\* let name = label; let i = 2; while (keys.includes(name)) { name = `${label} ${i}`; i++ }
RECURSIVE QuickAddLoop(_, _, _, _)
QuickAddLoop(keys, label, name, i) ==
    IF Includes(keys, name)
    THEN QuickAddLoop(keys, label, label \o <<" ">> \o NatToString(i), i + 1)
    ELSE name

\* mutant: the first candidate is taken without the collision loop
QuickAddName_NoLoop(keys, type) == COLUMN_TYPE_LABELS[type]

\* mutant: the counter starts at 1, so the second name is "{label} 1"
QuickAddName_FromOne(keys, type) ==
    QuickAddLoop(keys, COLUMN_TYPE_LABELS[type], COLUMN_TYPE_LABELS[type], 1)

QuickAddName(keys, type) ==
    QuickAddLoop(keys, COLUMN_TYPE_LABELS[type], COLUMN_TYPE_LABELS[type], 2)

\* mutant: the new column is put first
QuickAddConfigs_First(prev, name, type) ==
    <<Config(name, type, FALSE, <<>>)>> \o prev

\* const newConfig = {key: name, type}; setColumnConfigs((prev) => [...prev, newConfig])
QuickAddConfigs(prev, name, type) ==
    Append(prev, Config(name, type, FALSE, <<>>))

HandleQuickAdd(type) ==
    CanCall /\
    IF type = "select"
    THEN LET lastKey == IF Len(columnKeys) = 0 THEN EmptyStr
                        ELSE columnKeys[Len(columnKeys)]
         IN /\ openDialog(InsertAction(lastKey, "right"), "select")
            /\ Called("quickAddColumn", lastKey, EmptyStr, FALSE)
            /\ UNCHANGED <<modelVars, viewVars, uuidCounter>>
    ELSE LET name == QuickAddName(columnKeys, type)
         IN /\ columnConfigs' = QuickAddConfigs(columnConfigs, name, type)
            /\ rows' = FillRows(rows, name, getDefaultValue(type))
            /\ Called("quickAddColumn", EmptyStr, name, TRUE)
            /\ UNCHANGED <<viewVars, dialogVars, uuidCounter>>

-----------------------------------------------------------------------------
(* columnActions *)

\* let copyName = `${key} (copy)`; let i = 2;
\* while (keys.includes(copyName)) { copyName = `${key} (copy ${i})`; i++ }
RECURSIVE DuplicateLoop(_, _, _, _)
DuplicateLoop(keys, key, copyName, i) ==
    IF Includes(keys, copyName)
    THEN DuplicateLoop(keys, key,
                       key \o S_copyOpen \o <<" ">> \o NatToString(i) \o <<")">>,
                       i + 1)
    ELSE copyName

\* mutant: the counter starts at 3, so "(copy 2)" is never tried
CopyName_SkipTwo(keys, key) ==
    DuplicateLoop(keys, key, key \o S_copyOpen \o <<")">>, 3)

CopyName(keys, key) == DuplicateLoop(keys, key, key \o S_copyOpen \o <<")">>, 2)

\* mutant: the copy is appended as the last column
DuplicateConfigs_Append(prev, config, idx, copyName) ==
    Append(prev, Config(copyName, config.type, config.hasOptions, config.options))

\* mutant: the copy is put behind the column that follows the source
DuplicateConfigs_SkipOne(prev, config, idx, copyName) ==
    InsertAt(prev, IF idx + 2 > Len(prev) THEN Len(prev) ELSE idx + 2,
             Config(copyName, config.type, config.hasOptions, config.options))

\* const newConfig = {...config, key: copyName}
\* [...prev.slice(0, idx + 1), newConfig, ...prev.slice(idx + 1)]
DuplicateConfigs(prev, config, idx, copyName) ==
    InsertAt(prev, idx + 1,
             Config(copyName, config.type, config.hasOptions, config.options))

\* mutant: the new entry is the default value, whatever the source holds
CopyRows_Default(prev, key, copyName, type) ==
    [i \in 1..Len(prev) |-> Put(prev[i], copyName, getDefaultValue(type))]

\* prev.map((row) => ({...row, [copyName]: row[key] ?? getDefaultValue(type)}))
CopyRows(prev, key, copyName, type) ==
    [i \in 1..Len(prev) |->
        Put(prev[i], copyName, Coalesce(Get(prev[i], key), getDefaultValue(type)))]

OnDuplicate(key) ==
    CanCall /\
    IF ~Includes(columnKeys, key)
    THEN /\ Called("duplicateColumn", key, EmptyStr, FALSE)
         /\ UNCHANGED <<modelVars, viewVars, dialogVars, uuidCounter>>
    ELSE LET config == FindConfig(key)
             copyName == CopyName(columnKeys, key)
             idx == IndexOf(columnKeys, key)
         IN /\ columnConfigs' = DuplicateConfigs(columnConfigs, config, idx, copyName)
            /\ rows' = CopyRows(rows, key, copyName, config.type)
            /\ Called("duplicateColumn", key, copyName, TRUE)
            /\ UNCHANGED <<viewVars, dialogVars, uuidCounter>>

\* mutant: a descending descriptor goes back to ascending, never to unsorted
OnSort_NeverClears(key) ==
    /\ CanCall
    /\ sorting' =
          (IF ~\E i \in 1..Len(sorting) : sorting[i].id = key
           THEN << [id |-> key, desc |-> FALSE] >>
           ELSE LET existing == sorting[CHOOSE i \in 1..Len(sorting) :
                                            sorting[i].id = key]
                IN << [id |-> key, desc |-> ~existing.desc] >>)
    /\ Called("toggleSort", key, EmptyStr, TRUE)
    /\ UNCHANGED <<modelVars, dialogVars, uuidCounter, columnVisibility,
                   rowSelection, aggregateModes>>

\* mutant: a descriptor on another column is kept and the new one added
OnSort_AddsDescriptor(key) ==
    /\ CanCall
    /\ sorting' =
          (IF ~\E i \in 1..Len(sorting) : sorting[i].id = key
           THEN Append(sorting, [id |-> key, desc |-> FALSE])
           ELSE LET existing == sorting[CHOOSE i \in 1..Len(sorting) :
                                            sorting[i].id = key]
                IN IF ~existing.desc THEN << [id |-> key, desc |-> TRUE] >>
                   ELSE <<>>)
    /\ Called("toggleSort", key, EmptyStr, TRUE)
    /\ UNCHANGED <<modelVars, dialogVars, uuidCounter, columnVisibility,
                   rowSelection, aggregateModes>>

OnSort(key) ==
    /\ CanCall
    /\ sorting' =
          (IF ~\E i \in 1..Len(sorting) : sorting[i].id = key
           THEN << [id |-> key, desc |-> FALSE] >>
           ELSE LET existing == sorting[CHOOSE i \in 1..Len(sorting) :
                                            sorting[i].id = key]
                IN IF ~existing.desc THEN << [id |-> key, desc |-> TRUE] >>
                   ELSE <<>>)
    /\ Called("toggleSort", key, EmptyStr, TRUE)
    /\ UNCHANGED <<modelVars, dialogVars, uuidCounter, columnVisibility,
                   rowSelection, aggregateModes>>

\* mutant: hiding removes the column from the column list
OnHide_DropsColumn(key) ==
    /\ CanCall
    /\ columnConfigs' = SelectSeq(columnConfigs, LAMBDA c : c.key # key)
    /\ columnVisibility' = Put(columnVisibility, key, FALSE)
    /\ Called("hideColumn", key, EmptyStr, TRUE)
    /\ UNCHANGED <<rows, dialogVars, uuidCounter, sorting,
                   rowSelection, aggregateModes>>

OnHide(key) ==
    /\ CanCall
    /\ columnVisibility' = Put(columnVisibility, key, FALSE)
    /\ Called("hideColumn", key, EmptyStr, TRUE)
    /\ UNCHANGED <<modelVars, dialogVars, uuidCounter, sorting,
                   rowSelection, aggregateModes>>

\* mutant: the entry under the deleted key is stripped from every row
OnDelete_StripsRows(key) ==
    /\ CanCall
    /\ columnConfigs' = SelectSeq(columnConfigs, LAMBDA c : c.key # key)
    /\ rows' = [i \in 1..Len(rows) |-> Rest(rows[i], key)]
    /\ Called("deleteColumn", key, EmptyStr, Includes(columnKeys, key))
    /\ UNCHANGED <<viewVars, dialogVars, uuidCounter>>

\* setColumnConfigs((prev) => prev.filter((c) => c.key !== key))
OnDelete(key) ==
    /\ CanCall
    /\ columnConfigs' = SelectSeq(columnConfigs, LAMBDA c : c.key # key)
    /\ Called("deleteColumn", key, EmptyStr, Includes(columnKeys, key))
    /\ UNCHANGED <<rows, viewVars, dialogVars, uuidCounter>>

\* Two calls of a handler of the same render: both closures hold the same
\* columnKeys and columnConfigs, and React applies the queued updater of the
\* first call and then that of the second to the latest state.
HandleQuickAddTwice(type) ==
    CanCall /\
    IF type = "select"
    THEN LET lastKey == IF Len(columnKeys) = 0 THEN EmptyStr
                        ELSE columnKeys[Len(columnKeys)]
         IN /\ openDialog(InsertAction(lastKey, "right"), "select")
            /\ Called("quickAddColumnTwice", lastKey, EmptyStr, FALSE)
            /\ UNCHANGED <<modelVars, viewVars, uuidCounter>>
    ELSE LET name == QuickAddName(columnKeys, type)
         IN /\ columnConfigs' = QuickAddConfigs(QuickAddConfigs(columnConfigs, name, type),
                                                name, type)
            /\ rows' = FillRows(FillRows(rows, name, getDefaultValue(type)),
                                name, getDefaultValue(type))
            /\ Called("quickAddColumnTwice", EmptyStr, name, TRUE)
            /\ UNCHANGED <<viewVars, dialogVars, uuidCounter>>

OnDuplicateTwice(key) ==
    CanCall /\
    IF ~Includes(columnKeys, key)
    THEN /\ Called("duplicateColumnTwice", key, EmptyStr, FALSE)
         /\ UNCHANGED <<modelVars, viewVars, dialogVars, uuidCounter>>
    ELSE LET config == FindConfig(key)
             copyName == CopyName(columnKeys, key)
             idx == IndexOf(columnKeys, key)
         IN /\ columnConfigs' =
                  DuplicateConfigs(DuplicateConfigs(columnConfigs, config, idx, copyName),
                                   config, idx, copyName)
            /\ rows' = CopyRows(CopyRows(rows, key, copyName, config.type),
                                key, copyName, config.type)
            /\ Called("duplicateColumnTwice", key, copyName, TRUE)
            /\ UNCHANGED <<viewVars, dialogVars, uuidCounter>>

\* columnVisibility[key] !== false
IsVisible(key) == ~(key \in DOMAIN columnVisibility /\ columnVisibility[key] = FALSE)

\* values the cell editor of a column type passes to onChange
EditorValues(config) ==
    CASE config.type = "checkbox" -> {Bool(TRUE)}
      [] config.type \in {"number", "currency", "percent", "phone"} -> {Str(<<"7">>)}
      [] config.type = "select" ->
            {Str(config.options[j]) : j \in 1..Len(config.options)}
      [] config.type = "date" -> {Str(EmptyStr)}
      [] OTHER -> {Str(<<"v">>)}

\* mutant: only an entry the row already has is overwritten
SetCellValue_ExistingOnly(rowIndex, key, value) ==
    /\ CanCall
    /\ rowIndex \in 0..(Len(rows) - 1)
    /\ rows' = [i \in 1..Len(rows) |->
                   IF i - 1 = rowIndex /\ key \in DOMAIN rows[i]
                   THEN Put(rows[i], key, value) ELSE rows[i]]
    /\ Called("setCellValue", key, EmptyStr, TRUE)
    /\ UNCHANGED <<columnConfigs, viewVars, dialogVars, uuidCounter>>

\* columnActions.onCellChange:
\* prev.map((row, i) => (i === rowIndex ? {...row, [key]: value} : row))
SetCellValue(rowIndex, key, value) ==
    /\ CanCall
    /\ rowIndex \in 0..(Len(rows) - 1)
    /\ rows' = [i \in 1..Len(rows) |->
                   IF i - 1 = rowIndex THEN Put(rows[i], key, value) ELSE rows[i]]
    /\ Called("setCellValue", key, EmptyStr, TRUE)
    /\ UNCHANGED <<columnConfigs, viewVars, dialogVars, uuidCounter>>

\* the editor of a rendered cell: the column exists and is visible
OnCellChange(rowIndex, key, value) ==
    /\ Includes(columnKeys, key)
    /\ IsVisible(key)
    /\ SetCellValue(rowIndex, key, value)

\* const mode = aggregateModes[config.key] ?? "sum"
AggregateModeOf(modes, key) == IF key \in DOMAIN modes THEN modes[key] ELSE "sum"

\* mutant: the modes chosen for the other keys are dropped
SetAggregateMode_DropsOthers(key, m) ==
    /\ CanCall
    /\ Includes(columnKeys, key)
    /\ IsVisible(key)
    /\ FindConfig(key).type \in {"number", "currency"}
    /\ aggregateModes' = Put(EmptyObject, key, m)
    /\ Called("setAggregateMode", key, EmptyStr, TRUE)
    /\ UNCHANGED <<modelVars, dialogVars, uuidCounter, sorting,
                   columnVisibility, rowSelection>>

\* footer aggregate menu: setAggregateModes((prev) => ({...prev, [config.key]: m}))
SetAggregateMode(key, m) ==
    /\ CanCall
    /\ Includes(columnKeys, key)
    /\ IsVisible(key)
    /\ FindConfig(key).type \in {"number", "currency"}
    /\ aggregateModes' = Put(aggregateModes, key, m)
    /\ Called("setAggregateMode", key, EmptyStr, TRUE)
    /\ UNCHANGED <<modelVars, dialogVars, uuidCounter, sorting,
                   columnVisibility, rowSelection>>

-----------------------------------------------------------------------------
(* Footer aggregate *)

\* A JavaScript number is modelled as an integer or NaN; a result of a
\* division as a fraction in lowest terms with a positive denominator.
NaN == [nan |-> TRUE, n |-> 0]
Number_(n) == [nan |-> FALSE, n |-> n]

IsDigit(c) == c \in {"0", "1", "2", "3", "4", "5", "6", "7", "8", "9"}

DigitValue(c) == CHOOSE d \in 0..9 : DigitChar(d) = c

RECURSIVE DigitsValue(_)
DigitsValue(s) ==
    IF s = <<>> THEN 0
    ELSE 10 * DigitsValue(SubSeq(s, 1, Len(s) - 1)) + DigitValue(s[Len(s)])

\* Number(string) for strings without fraction, exponent or radix prefix:
\* white space is trimmed, the empty string is 0, an optionally signed run of
\* digits is its value, anything else is NaN
StringToNumber(str) ==
    LET t == Trim(str)
        signed == t # <<>> /\ Head(t) \in {"-", "+"}
        digits == IF signed THEN Tail(t) ELSE t
    IN IF t = <<>> THEN Number_(0)
       ELSE IF digits # <<>> /\ \A i \in 1..Len(digits) : IsDigit(digits[i])
            THEN Number_(IF Head(t) = "-" THEN 0 - DigitsValue(digits)
                         ELSE DigitsValue(digits))
            ELSE NaN

\* Number(value)
ToNumber(v) ==
    CASE v.t = "number" -> Number_(v.n)
      [] v.t = "string" -> StringToNumber(v.s)
      [] v.t = "boolean" -> Number_(IF v.b THEN 1 ELSE 0)
      [] v.t = "null" -> Number_(0)
      [] OTHER -> NaN

Abs(n) == IF n < 0 THEN 0 - n ELSE n

RECURSIVE GCD(_, _)
GCD(a, b) == IF b = 0 THEN a ELSE GCD(b, a % b)

\* n / d for d > 0
Quotient(n, d) ==
    LET g == GCD(Abs(n), d)
    IN IF n = 0 THEN [num |-> 0, den |-> 1]
       ELSE [num |-> n \div g, den |-> d \div g]

\* values.reduce((a, b) => a + b, 0)
RECURSIVE SumOf(_)
SumOf(values) == IF values = <<>> THEN 0 ELSE Head(values) + SumOf(Tail(values))

\* [...values].sort((a, b) => a - b)
RECURSIVE SortAscending(_)
SortAscending(values) ==
    IF values = <<>> THEN <<>>
    ELSE LET i == CHOOSE i \in 1..Len(values) :
                      \A j \in 1..Len(values) : values[i] <= values[j]
         IN <<values[i]>>
            \o SortAscending(SubSeq(values, 1, i - 1)
                             \o SubSeq(values, i + 1, Len(values)))

\* mutant: the median of an even count is the upper middle element
computeAggregate_UpperMedian(values, mode) ==
    IF Len(values) = 0 THEN Quotient(0, 1)
    ELSE CASE mode = "sum" -> Quotient(SumOf(values), 1)
           [] mode = "average" -> Quotient(SumOf(values), Len(values))
           [] mode = "median" ->
                Quotient(SortAscending(values)[(Len(values) \div 2) + 1], 1)

computeAggregate(values, mode) ==
    IF Len(values) = 0 THEN Quotient(0, 1)
    ELSE CASE mode = "sum" -> Quotient(SumOf(values), 1)
           [] mode = "average" -> Quotient(SumOf(values), Len(values))
           [] mode = "median" ->
                LET sorted == SortAscending(values)
                    mid == Len(sorted) \div 2
                IN IF Len(sorted) % 2 # 0
                   THEN Quotient(sorted[mid + 1], 1)
                   ELSE Quotient(sorted[mid] + sorted[mid + 1], 2)

\* config.type === "number" || config.type === "currency"
HasAggregate(config) == config.type \in {"number", "currency"}

\* mutant: a value that fails to parse is counted as 0
FooterValues_NaNAsZero(config) ==
    [i \in 1..Len(rows) |->
        IF ToNumber(Get(rows[i], config.key)).nan THEN 0
        ELSE ToNumber(Get(rows[i], config.key)).n]

\* rows.map((r) => Number(r[config.key])).filter((v) => !isNaN(v))
FooterValues(config) ==
    LET numbers == [i \in 1..Len(rows) |-> ToNumber(Get(rows[i], config.key))]
        kept == SelectSeq(numbers, LAMBDA v : ~v.nan)
    IN [i \in 1..Len(kept) |-> kept[i].n]

\* const result = computeAggregate(values, mode)
FooterResult(config) ==
    computeAggregate(FooterValues(config),
                     AggregateModeOf(aggregateModes, config.key))

\* the footer cell rendered for a column: nothing for a hidden column, the
\* aggregate with its mode menu for a number or currency column, an empty
\* cell otherwise
FooterCell(config) ==
    IF ~IsVisible(config.key) THEN [kind |-> "null"]
    ELSE IF HasAggregate(config)
         THEN [kind |-> "aggregate",
               mode |-> AggregateModeOf(aggregateModes, config.key),
               result |-> FooterResult(config)]
         ELSE [kind |-> "empty"]

-----------------------------------------------------------------------------
(* formatCellValue *)

\* mutant: value === null || value === ""
IsEmptyValue_StrictNull(value) == value = Null \/ value = Str(EmptyStr)

\* value == null || value === ""
IsEmptyValue(value) == value.t \in {"null", "undefined"} \/ value = Str(EmptyStr)

\* toLocaleString("en-US") of an integer: groups of three digits
RECURSIVE GroupThousands(_)
GroupThousands(digits) ==
    IF Len(digits) <= 3 THEN digits
    ELSE GroupThousands(SubSeq(digits, 1, Len(digits) - 3)) \o <<",">>
         \o SubSeq(digits, Len(digits) - 2, Len(digits))

toLocaleString(n) ==
    (IF n < 0 THEN <<"-">> ELSE <<>>) \o GroupThousands(NatToString(Abs(n)))

\* String(value).replace(/\D/g, "")
DigitsOf(str) == SelectSeq(str, IsDigit)

\* mutant: any eleven digits are shown as a number with country code
PhoneText_AnyEleven(value) ==
    LET digits == DigitsOf(StringOf(value))
    IN IF Len(digits) = 10
       THEN <<"(">> \o SubSeq(digits, 1, 3) \o <<")", " ">> \o SubSeq(digits, 4, 6)
            \o <<"-">> \o SubSeq(digits, 7, 10)
       ELSE IF Len(digits) = 11
            THEN <<"+", "1", " ", "(">> \o SubSeq(digits, 2, 4) \o <<")", " ">>
                 \o SubSeq(digits, 5, 7) \o <<"-">> \o SubSeq(digits, 8, 11)
            ELSE StringOf(value)

\* case "phone"
PhoneText(value) ==
    LET digits == DigitsOf(StringOf(value))
    IN IF Len(digits) = 10
       THEN <<"(">> \o SubSeq(digits, 1, 3) \o <<")", " ">> \o SubSeq(digits, 4, 6)
            \o <<"-">> \o SubSeq(digits, 7, Len(digits))
       ELSE IF Len(digits) = 11 /\ Head(digits) = "1"
            THEN <<"+", "1", " ", "(">> \o SubSeq(digits, 2, 4) \o <<")", " ">>
                 \o SubSeq(digits, 5, 7) \o <<"-">> \o SubSeq(digits, 8, Len(digits))
            ELSE StringOf(value)

\* new Date(String(value)) for a calendar date written YYYY-MM-DD, which is
\* midnight UTC of that day; every other text in the model is no date
IsLeapYear(y) == (y % 4 = 0 /\ y % 100 # 0) \/ y % 400 = 0

DaysInMonth(y, m) ==
    IF m = 2 THEN (IF IsLeapYear(y) THEN 29 ELSE 28)
    ELSE IF m \in {4, 6, 9, 11} THEN 30 ELSE 31

IsDateString(str) ==
    /\ Len(str) = 10
    /\ str[5] = "-" /\ str[8] = "-"
    /\ \A i \in {1, 2, 3, 4, 6, 7, 9, 10} : IsDigit(str[i])
    /\ DigitsValue(SubSeq(str, 6, 7)) \in 1..12
    /\ DigitsValue(SubSeq(str, 9, 10)) >= 1
    /\ DigitsValue(SubSeq(str, 9, 10))
          <= DaysInMonth(DigitsValue(SubSeq(str, 1, 4)), DigitsValue(SubSeq(str, 6, 7)))

\* the local calendar day of midnight UTC: the day before in a zone west of UTC
LocalDay(y, m, d, west) ==
    IF ~west THEN [year |-> y, month |-> m, day |-> d]
    ELSE IF d > 1 THEN [year |-> y, month |-> m, day |-> d - 1]
    ELSE IF m > 1 THEN [year |-> y, month |-> m - 1, day |-> DaysInMonth(y, m - 1)]
    ELSE [year |-> y - 1, month |-> 12, day |-> 31]

MonthShort == << <<"J", "a", "n">>,
                <<"F", "e", "b">>,
                <<"M", "a", "r">>,
                <<"A", "p", "r">>,
                <<"M", "a", "y">>,
                <<"J", "u", "n">>,
                <<"J", "u", "l">>,
                <<"A", "u", "g">>,
                <<"S", "e", "p">>,
                <<"O", "c", "t">>,
                <<"N", "o", "v">>,
                <<"D", "e", "c">> >>

\* d.toLocaleDateString("en-US", {year: "numeric", month: "short", day: "numeric"})
toLocaleDateString(str, west) ==
    LET local == LocalDay(DigitsValue(SubSeq(str, 1, 4)), DigitsValue(SubSeq(str, 6, 7)),
                          DigitsValue(SubSeq(str, 9, 10)), west)
    IN MonthShort[local.month] \o <<" ">> \o NatToString(local.day) \o <<",", " ">>
       \o NatToString(local.year)

\* formatCellValue(value, type) for values whose number is an integer, in a
\* runtime whose default locale is en-US and whose time zone is west of UTC
\* or not
formatCellValue(value, type, west) ==
    IF IsEmptyValue(value) THEN EmptyStr
    ELSE CASE type = "currency" ->
                IF ToNumber(value).nan THEN StringOf(value)
                ELSE <<"$">> \o toLocaleString(ToNumber(value).n) \o <<".", "0", "0">>
           [] type = "percent" ->
                IF ToNumber(value).nan THEN StringOf(value)
                ELSE IntToString(ToNumber(value).n) \o <<"%">>
           [] type = "phone" -> PhoneText(value)
           [] type = "date" ->
                IF IsDateString(StringOf(value))
                THEN toLocaleDateString(StringOf(value), west)
                ELSE StringOf(value)
           [] type = "number" ->
                IF ToNumber(value).nan THEN StringOf(value)
                ELSE toLocaleString(ToNumber(value).n)
           [] OTHER -> StringOf(value)

\* a caller of formatCellValue(value, type)
FormatCell ==
    /\ ~formatCall.called
    /\ formatCall' = [formatCall EXCEPT
                         !.called = TRUE,
                         !.result = formatCellValue(formatCall.value, formatCall.type,
                                                    formatCall.west)]
    /\ UNCHANGED <<modelVars, viewVars, dialogVars, uuidCounter, steps, lastOp>>

-----------------------------------------------------------------------------
(* PhoneCellEditor *)

\* raw.replace(/\D/g, "").slice(0, 10)
FirstTenDigits(raw) ==
    SubSeq(DigitsOf(raw), 1, IF Len(DigitsOf(raw)) < 10 THEN Len(DigitsOf(raw)) ELSE 10)

formatPhone(raw) ==
    LET digits == FirstTenDigits(raw)
    IN IF Len(digits) <= 3 THEN digits
       ELSE IF Len(digits) <= 6
            THEN <<"(">> \o SubSeq(digits, 1, 3) \o <<")", " ">>
                 \o SubSeq(digits, 4, Len(digits))
            ELSE <<"(">> \o SubSeq(digits, 1, 3) \o <<")", " ">>
                 \o SubSeq(digits, 4, 6) \o <<"-">> \o SubSeq(digits, 7, Len(digits))

\* the text shown in the input: formatPhone(digits) with
\* digits = value != null ? String(value).replace(/\D/g, "") : ""
PhoneEditorText(value) ==
    formatPhone(IF value.t \in {"null", "undefined"} THEN EmptyStr
                ELSE DigitsOf(StringOf(value)))

\* mutant: the editor passes on every digit of the input
PhoneEditorValue_AllDigits(raw) == Str(DigitsOf(raw))

\* handleChange: the value passed to onChange
PhoneEditorValue(raw) == Str(FirstTenDigits(raw))

\* the input's onChange in the cell of a phone column
PhoneInput(rowIndex, key, raw) ==
    /\ Includes(columnKeys, key)
    /\ FindConfig(key).type = "phone"
    /\ OnCellChange(rowIndex, key, PhoneEditorValue(raw))

-----------------------------------------------------------------------------
(* Rows *)

\* crypto.randomUUID(): a string no earlier call returned
randomUUID == S_uuid \o NatToString(uuidCounter)

RECURSIVE FillDefaults(_, _)
FillDefaults(row, configs) ==
    IF configs = <<>> THEN row
    ELSE FillDefaults(Put(row, Head(configs).key, getDefaultValue(Head(configs).type)),
                      Tail(configs))

HandleAddRow ==
    /\ CanCall
    /\ rows' = Append(rows, FillDefaults(Put(EmptyObject, S_id, Str(randomUUID)),
                                         columnConfigs))
    /\ uuidCounter' = uuidCounter + 1
    /\ Called("addRow", EmptyStr, randomUUID, TRUE)
    /\ UNCHANGED <<columnConfigs, viewVars, dialogVars>>

\* row checkbox: row.toggleSelected(!!value)
ToggleRowSelected(rowIndex) ==
    /\ CanCall
    /\ rowIndex \in 0..(Len(rows) - 1)
    /\ LET id == getRowId(rows[rowIndex + 1])
       IN /\ rowSelection' = (IF id \in rowSelection THEN rowSelection \ {id}
                              ELSE rowSelection \cup {id})
          /\ Called("toggleSelected", EmptyStr, id, TRUE)
    /\ UNCHANGED <<modelVars, dialogVars, uuidCounter, sorting,
                   columnVisibility, aggregateModes>>

\* table.getFilteredSelectedRowModel().rows.map((r) => r.id)
SelectedIds ==
    {getRowId(rows[i]) : i \in {j \in 1..Len(rows) : getRowId(rows[j]) \in rowSelection}}

\* mutant: the selection is kept after the rows are removed
HandleDeleteSelectedRows_KeepsSelection ==
    /\ CanCall
    /\ SelectedIds # {}
    /\ rows' = SelectSeq(rows, LAMBDA row : getRowId(row) \notin SelectedIds)
    /\ Called("deleteRows", EmptyStr, EmptyStr, TRUE)
    /\ UNCHANGED <<columnConfigs, dialogVars, uuidCounter, sorting,
                   columnVisibility, aggregateModes, rowSelection>>

HandleDeleteSelectedRows ==
    /\ CanCall
    /\ SelectedIds # {}
    /\ rows' = SelectSeq(rows, LAMBDA row : getRowId(row) \notin SelectedIds)
    /\ rowSelection' = {}
    /\ Called("deleteRows", EmptyStr, EmptyStr, TRUE)
    /\ UNCHANGED <<columnConfigs, dialogVars, uuidCounter, sorting,
                   columnVisibility, aggregateModes>>

-----------------------------------------------------------------------------
(* Specification *)

Next ==
    \/ \E key \in ActionKeys : OnEdit(key)
    \/ \E key \in ActionKeys : OnInsertLeft(key)
    \/ \E key \in ColumnKeySet : OnInsertRight(key)
    \/ CancelDialog
    \/ \E text \in DialogInputs : SetDialogInput(text)
    \/ \E ty \in DialogTypes : SetDialogType(ty)
    \/ \E text \in OptionInputs : SetNewOptionValue(text)
    \/ AddOption
    \/ \E j \in 0..1 : RemoveOption(j)
    \/ HandleDialogSubmit
    \/ \E ty \in QuickAddTypes : HandleQuickAdd(ty)
    \/ \E key \in ActionKeys : OnDuplicate(key)
    \/ \E key \in ColumnKeySet : OnSort(key)
    \/ \E key \in ColumnKeySet : OnHide(key)
    \/ \E key \in ActionKeys : OnDelete(key)
    \/ \E rowIndex \in 0..(Len(rows) - 1), key \in ColumnKeySet :
          \E value \in EditorValues(FindConfig(key)) :
              OnCellChange(rowIndex, key, value)
    \/ \E key \in ColumnKeySet, m \in AggregateMode : SetAggregateMode(key, m)
    \/ HandleAddRow
    \/ \E rowIndex \in 0..(Len(rows) - 1) : ToggleRowSelected(rowIndex)
    \/ HandleDeleteSelectedRows

Spec == Init /\ [][Next]_vars

\* the column dialog alone: opened from a column menu or from the select item
\* of the add-column menu, edited, submitted or cancelled
DialogNext ==
    \/ \E key \in ActionKeys : OnEdit(key)
    \/ \E key \in ActionKeys : OnInsertLeft(key)
    \/ \E key \in ColumnKeySet : OnInsertRight(key)
    \/ HandleQuickAdd("select")
    \/ CancelDialog
    \/ \E text \in DialogInputs : SetDialogInput(text)
    \/ \E ty \in DialogTypes : SetDialogType(ty)
    \/ \E text \in OptionInputs : SetNewOptionValue(text)
    \/ AddOption
    \/ \E j \in 0..1 : RemoveOption(j)
    \/ HandleDialogSubmit

\* a caller-supplied table whose column key starts with a space
spacedColumns == << Config(<<" ">> \o S_note, "text", FALSE, <<>>) >>

spacedData ==
    << Put(Put(EmptyObject, S_id, Str(S_r2)), <<" ">> \o S_note, Str(<<"x">>)) >>

DialogInit ==
    InitWith(InitialTables \cup {[initialColumns |-> spacedColumns, data |-> spacedData]})

DialogSpec == DialogInit /\ [][DialogNext]_vars

\* the add-column menu with all ten types, on tables whose columns are deleted
\* and whose column dialog is submitted or cancelled in between
\* a caller-supplied layout in which the column "Text 2" has outlived "Text"
savedColumns ==
    << Config(S_Tag, "select", TRUE, << <<"A">>, <<"B">> >>),
       Config(COLUMN_TYPE_LABELS["text"] \o <<" ", "2">>, "text", FALSE, <<>>) >>

savedData ==
    << Put(Put(Put(EmptyObject, S_id, Str(S_r2)), S_Tag, Str(<<"A">>)),
           COLUMN_TYPE_LABELS["text"] \o <<" ", "2">>, Str(S_note)) >>

QuickAddInit ==
    InitWith(InitialTables \cup {[initialColumns |-> savedColumns, data |-> savedData]})

QuickAddNext ==
    \/ \E ty \in ColumnType : HandleQuickAdd(ty)
    \/ \E key \in ColumnKeySet : OnDelete(key)
    \/ HandleDialogSubmit
    \/ CancelDialog

QuickAddSpec == QuickAddInit /\ [][QuickAddNext]_vars

\* values a cell editor can pass to onCellChange
CellInputs == {Str(<<"7">>), Str(EmptyStr), Bool(TRUE)}

\* the row operations, with onCellChange called for any key and any editor
\* value, on tables whose columns are deleted in between
RowNext ==
    \/ HandleAddRow
    \/ \E rowIndex \in 0..(Len(rows) - 1) : ToggleRowSelected(rowIndex)
    \/ HandleDeleteSelectedRows
    \/ \E rowIndex \in 0..(Len(rows) - 1), key \in ActionKeys, value \in CellInputs :
          SetCellValue(rowIndex, key, value)
    \/ \E key \in ColumnKeySet : OnDelete(key)

RowSpec == Init /\ [][RowNext]_vars

\* the view-state operations, on tables that gain number and currency columns
\* from the add-column menu and lose columns in between
ViewNext ==
    \/ \E key \in ColumnKeySet : OnSort(key)
    \/ \E key \in ColumnKeySet : OnHide(key)
    \/ \E key \in ColumnKeySet, m \in AggregateMode : SetAggregateMode(key, m)
    \/ \E ty \in {"number", "currency"} : HandleQuickAdd(ty)
    \/ \E key \in ColumnKeySet : OnDelete(key)

\* a caller-supplied table whose column carries the label of the number type
countColumns == << Config(COLUMN_TYPE_LABELS["number"], "number", FALSE, <<>>) >>

countData ==
    << Put(Put(EmptyObject, S_id, Str(S_r2)), COLUMN_TYPE_LABELS["number"], Num(7)) >>

ViewInit ==
    InitWith(InitialTables \cup {[initialColumns |-> countColumns, data |-> countData]})

ViewSpec == ViewInit /\ [][ViewNext]_vars

\* the footer of a table with a currency column and a text column, over every
\* list of up to MaxValues cell values under "amount": numbers, a numeral typed
\* into the editor and a text that is no number
MaxValues == 4

AmountInputs == {Num(1), Num(2), Str(<<"3">>), Num(4), Str(<<"x">>)}

amountColumns ==
    << Config(S_amount, "currency", FALSE, <<>>),
       Config(COLUMN_TYPE_LABELS["text"], "text", FALSE, <<>>) >>

amountData(values) ==
    [i \in 1..Len(values) |->
        Put(Put(Put(EmptyObject, S_id, Str(<<"r">> \o NatToString(i))),
                S_amount, values[i]),
            COLUMN_TYPE_LABELS["text"], Str(<<"3">>))]

AggregateInit ==
    InitWith({[initialColumns |-> amountColumns, data |-> amountData(values)] :
                 values \in UNION {[1..n -> AmountInputs] : n \in 0..MaxValues}})

\* the mode menu is rendered in the footer of number and currency columns
AggregateNext ==
    \/ \E i \in 1..Len(columnConfigs), m \in AggregateMode :
          /\ HasAggregate(columnConfigs[i])
          /\ SetAggregateMode(columnConfigs[i].key, m)
    \/ HandleAddRow

AggregateSpec == AggregateInit /\ [][AggregateNext]_vars

\* calls of formatCellValue: texts made of a prefix, a body and a suffix that
\* hold between 0 and 14 digits among other characters, and the values null,
\* undefined, "", booleans and numbers
PhonePrefixes == { <<>>,
                 <<"1">>,
                 <<"2">>,
                 <<"+", "1", " ">>,
                 <<"(">> }

PhoneBodies == { <<>>,
               <<"1", "2", "3">>,
               <<"5", "5", "5", "1", "2", "3", "4", "5", "6">>,
               <<"5", "5", "5", "1", "2", "3", "4", "5", "6", "7">>,
               <<"5", "5", "5", "-", "1", "2", "3", "-", "4", "5", "6", "7">>,
               <<"(", "5", "5", "5", ")", " ", "1", "2", "3", "-", "4", "5", "6", "7">>,
               <<"5", "5", "5", "1", "2", "3", "4", "5", "6", "7", "8">> }

PhoneSuffixes == { <<>>,
                 <<"7">>,
                 <<" ", "x">>,
                 <<"8", "9">> }

EmptyInputs == {Null, Undefined, Str(EmptyStr)}

TextInputs ==
    EmptyInputs \cup {Bool(FALSE), Bool(TRUE), Num(0), Num(42), Num(1234567890)}
    \cup {Str(p \o b \o x) : p \in PhonePrefixes, b \in PhoneBodies, x \in PhoneSuffixes}

\* values passed for a currency, percent or number column
NumberInputs ==
    EmptyInputs \cup {Bool(FALSE), Bool(TRUE), Num(0), Num(42), Num(0 - 5), Num(1234567),
                      Str(<<"7">>), Str(<<" ", "1", "2", " ">>), Str(<<"+", "3">>),
                      Str(<<"x">>)}

\* values passed for a date column: calendar dates and texts that are no date
DateInputs ==
    EmptyInputs \cup {Str(<<"2", "0", "2", "4", "-", "0", "1", "-", "1", "5">>), Str(<<"2", "0", "2", "4", "-", "0", "3", "-", "0", "1">>),
                      Str(<<"2", "0", "2", "3", "-", "0", "1", "-", "0", "1">>), Str(<<"x">>), Bool(TRUE)}

FormatInputs(type) ==
    IF type \in {"currency", "percent", "number"} THEN NumberInputs
    ELSE IF type = "date" THEN DateInputs
    ELSE TextInputs

FormatInit ==
    /\ TableInit({[initialColumns |-> initialColumns, data |-> <<demoRow>>]})
    /\ \E type \in ColumnType, west \in BOOLEAN :
          \E value \in FormatInputs(type) :
             /\ type # "date" => ~west
             /\ formatCall = [value |-> value, type |-> type, west |-> west,
                              called |-> FALSE, result |-> EmptyStr]

FormatNext == FormatCell

FormatSpec == FormatInit /\ [][FormatNext]_vars

\* the add-column menu and the duplicate item, each also dispatched twice
\* before the component renders again
SnapshotNext ==
    \/ \E ty \in ColumnType : HandleQuickAdd(ty)
    \/ \E ty \in ColumnType : HandleQuickAddTwice(ty)
    \/ \E key \in ActionKeys : OnDuplicate(key)
    \/ \E key \in ActionKeys : OnDuplicateTwice(key)
    \/ \E key \in ColumnKeySet : OnDelete(key)

SnapshotSpec == Init /\ [][SnapshotNext]_vars

\* the phone editor of a one-row table whose phone cell holds any of the
\* texts, numbers, booleans and empty values above, with texts typed or
\* pasted into the input
phoneColumns == << Config(COLUMN_TYPE_LABELS["phone"], "phone", FALSE, <<>>) >>

phoneData(value) ==
    << Put(Put(EmptyObject, S_id, Str(S_r2)), COLUMN_TYPE_LABELS["phone"], value) >>

PhoneTyped == {p \o b : p \in PhonePrefixes, b \in PhoneBodies}

PhoneInit ==
    InitWith({[initialColumns |-> phoneColumns, data |-> phoneData(value)] :
                 value \in TextInputs})

PhoneNext ==
    \E rowIndex \in 0..(Len(rows) - 1), key \in ColumnKeySet, raw \in PhoneTyped :
        PhoneInput(rowIndex, key, raw)

PhoneSpec == PhoneInit /\ [][PhoneNext]_vars

-----------------------------------------------------------------------------
(* Properties *)

RowIds == [i \in 1..Len(rows) |-> getRowId(rows[i])]

ColumnOps == {"renameColumn", "insertColumn", "duplicateColumn",
              "quickAddColumn", "deleteColumn", "hideColumn"}

StructuralOps == {"renameColumn", "insertColumn", "duplicateColumn",
                  "quickAddColumn", "deleteColumn", "addRow", "deleteRows"}

\* C1 (I1): in every reachable state the keys of the column list are
\* pairwise distinct.
C1_KeysDistinct ==
    \A i, j \in 1..Len(columnConfigs) :
        i # j => columnConfigs[i].key # columnConfigs[j].key

\* a quick-add that had to step over a taken label ("Text" -> "Text 2")
C1_Witness ==
    /\ lastOp.op = "quickAddColumn"
    /\ lastOp.ok
    /\ lastOp.name = COLUMN_TYPE_LABELS["text"] \o <<" ", "2">>
    /\ Includes(columnKeys, COLUMN_TYPE_LABELS["text"])
    /\ Includes(columnKeys, lastOp.name)

\* C2 (I2): after each successful structural mutation every row has an entry
\* for every key of the current column list.
C2_RowsComplete ==
    (lastOp.op \in StructuralOps /\ lastOp.ok) =>
        \A i \in 1..Len(rows), j \in 1..Len(columnConfigs) :
            columnConfigs[j].key \in DOMAIN rows[i]

\* a column inserted through the dialog into a table that has rows
C2_Witness ==
    /\ lastOp.op = "insertColumn"
    /\ lastOp.ok
    /\ Len(rows) > 0
    /\ Includes(columnKeys, lastOp.name)

\* C3 (I3): row identifiers are pairwise distinct in every state, and no
\* column operation changes the identifier of any row.  (A rename of a key
\* that names no column is the subject of C5 and is left aside here.)
C3_RowIdsDistinctAndStable ==
    [][ ~(lastOp'.op = "renameColumn" /\ ~Includes(columnKeys, pendingAction.key))
        => /\ \A i, j \in 1..Len(rows') :
                 i # j => getRowId(rows'[i]) # getRowId(rows'[j])
           /\ lastOp'.op \in ColumnOps => RowIds' = RowIds ]_vars

\* C4: a renameColumn whose trimmed name is empty, or differs from oldKey and
\* is the key of a current column, leaves the column list and the rows as
\* they were.
C4_RenameRejected ==
    [][ ( /\ lastOp'.op = "renameColumn"
          /\ \/ Trim(dialogInput) = EmptyStr
             \/ /\ Trim(dialogInput) # pendingAction.key
                /\ Includes(columnKeys, Trim(dialogInput)) )
        => (columnConfigs' = columnConfigs /\ rows' = rows) ]_vars

\* a rename to the key of another current column has been refused
C4_Witness ==
    /\ lastOp.op = "renameColumn"
    /\ ~lastOp.ok
    /\ lastOp.name # EmptyStr
    /\ lastOp.name # lastOp.key
    /\ Includes(columnKeys, lastOp.name)
    /\ Includes(columnKeys, lastOp.key)

S_Phone == <<"P", "h", "o", "n", "e">>

\* the config a dialog submit writes: {key: name, type: dialogType,
\* options: dialogType === "select" ? dialogOptions : undefined}
SubmittedConfig ==
    Config(Trim(dialogInput), dialogType, dialogType = "select",
           IF dialogType = "select" THEN dialogOptions ELSE <<>>)

\* C5: renameColumn with an oldKey that names no column (and a non-empty,
\* non-colliding new name), and duplicateColumn and deleteColumn on a key that
\* names no column, leave the column list and the rows as they were.
C5_AbsentKeyNoOp ==
    [][ ( \/ /\ lastOp'.op = "renameColumn"
             /\ ~Includes(columnKeys, pendingAction.key)
             /\ Trim(dialogInput) # EmptyStr
             /\ ~Includes(columnKeys, Trim(dialogInput))
          \/ /\ lastOp'.op \in {"duplicateColumn", "deleteColumn"}
             /\ ~Includes(columnKeys, lastOp'.key) )
        => (columnConfigs' = columnConfigs /\ rows' = rows) ]_vars

\* C6: a successful renameColumn of a current column changes only that
\* column's entry, in place: it gets the new key, type and options; the number
\* and order of the columns and every other entry are unchanged.
C6_RenameInPlace ==
    [][ ( /\ lastOp'.op = "renameColumn"
          /\ lastOp'.ok
          /\ Includes(columnKeys, pendingAction.key) )
        => /\ Len(columnConfigs') = Len(columnConfigs)
           /\ \A i \in 1..Len(columnConfigs) :
                 columnConfigs'[i] =
                    (IF columnConfigs[i].key = pendingAction.key
                     THEN SubmittedConfig ELSE columnConfigs[i]) ]_vars

\* email of [status, email, amount] renamed to Phone, still in second place
C6_Witness ==
    /\ lastOp.op = "renameColumn"
    /\ lastOp.ok
    /\ lastOp.key = S_email
    /\ lastOp.name = S_Phone
    /\ columnKeys = <<S_status, S_Phone, S_amount>>

C8_InsertAtAnchor ==
    [][ ( /\ lastOp'.op = "insertColumn"
          /\ lastOp'.ok
          /\ pendingAction.key # EmptyStr
          /\ Includes(columnKeys, pendingAction.key) )
        => LET p == IndexOf(columnKeys, pendingAction.key)
                    + (IF pendingAction.side = "left" THEN 0 ELSE 1)
           IN /\ Len(columnConfigs') = Len(columnConfigs) + 1
              /\ columnConfigs'[p + 1].key = Trim(dialogInput)
              /\ \A i \in 1..Len(columnConfigs) :
                    columnConfigs'[IF i <= p THEN i ELSE i + 1] = columnConfigs[i] ]_vars

\* Phone inserted right of email in [status, email, amount]
C8_Witness ==
    /\ lastOp.op = "insertColumn"
    /\ lastOp.ok
    /\ lastOp.key = S_email
    /\ lastOp.side = "right"
    /\ columnKeys = <<S_status, S_email, S_Phone, S_amount>>

\* C9: a successful insertColumn whose anchor is empty or names no current
\* column appends the new column as the last one, whatever the side.
C9_InsertAppends ==
    [][ ( /\ lastOp'.op = "insertColumn"
          /\ lastOp'.ok
          /\ \/ pendingAction.key = EmptyStr
             \/ ~Includes(columnKeys, pendingAction.key) )
        => /\ Len(columnConfigs') = Len(columnConfigs) + 1
           /\ columnConfigs'[Len(columnConfigs')].key = Trim(dialogInput)
           /\ SubSeq(columnConfigs', 1, Len(columnConfigs)) = columnConfigs ]_vars

\* an insert left of a key that names no column, into a table with columns
C9_Witness ==
    /\ lastOp.op = "insertColumn"
    /\ lastOp.ok
    /\ lastOp.side = "left"
    /\ ~Includes(columnKeys, lastOp.key)
    /\ Len(columnConfigs) > 1
    /\ columnConfigs[Len(columnConfigs)].key = lastOp.name

\* C10: right after a successful insertColumn or quickAddColumn every row
\* holds the default value of the new column's type under the new key, also
\* when the row carried an entry under that name before.
C10_NewColumnHasDefault ==
    (lastOp.op \in {"insertColumn", "quickAddColumn"} /\ lastOp.ok) =>
        /\ Includes(columnKeys, lastOp.name)
        /\ \A i \in 1..Len(rows) :
              /\ lastOp.name \in DOMAIN rows[i]
              /\ rows[i][lastOp.name] = getDefaultValue(FindConfig(lastOp.name).type)

\* the column Text (holding "note") was deleted, then quick-add created a new
\* column Text
C10_Witness ==
    /\ steps = 2
    /\ lastOp.op = "quickAddColumn"
    /\ lastOp.ok
    /\ lastOp.name = COLUMN_TYPE_LABELS["text"]
    /\ columnKeys = <<S_Tag, COLUMN_TYPE_LABELS["text"]>>
    /\ Len(rows) = 1
    /\ rows[1][COLUMN_TYPE_LABELS["text"]] = Str(EmptyStr)

\* C11: an insertColumn whose trimmed name is empty or is the key of a current
\* column, visible or hidden, leaves the column list and the rows as they were.
C11_InsertRejected ==
    [][ ( /\ lastOp'.op = "insertColumn"
          /\ \/ Trim(dialogInput) = EmptyStr
             \/ Includes(columnKeys, Trim(dialogInput)) )
        => (columnConfigs' = columnConfigs /\ rows' = rows) ]_vars

\* an insert named after a hidden column has been refused
C11_Witness ==
    /\ lastOp.op = "insertColumn"
    /\ ~lastOp.ok
    /\ lastOp.name # EmptyStr
    /\ Includes(columnKeys, lastOp.name)
    /\ ~IsVisible(lastOp.name)

\* the k-th name duplicateColumn tries: "{key} (copy)", "{key} (copy 2)", ...
CopyCandidate(key, k) ==
    IF k = 1 THEN key \o <<" ", "(", "c", "o", "p", "y", ")">>
    ELSE key \o <<" ", "(", "c", "o", "p", "y", " ">> \o NatToString(k) \o <<")">>

\* C12: duplicateColumn(sourceKey) names the copy with the first candidate of
\* "{sourceKey} (copy)", "{sourceKey} (copy 2)", "{sourceKey} (copy 3)", ...
\* that is no current column key: the name is no existing key and every
\* earlier candidate is one.
C12_CopyNameFirstFree ==
    [][ (lastOp'.op = "duplicateColumn" /\ lastOp'.ok)
        => \E k \in 1..(Len(columnKeys) + 1) :
              /\ lastOp'.name = CopyCandidate(lastOp'.key, k)
              /\ ~Includes(columnKeys, lastOp'.name)
              /\ Includes(columnKeys', lastOp'.name)
              /\ \A j \in 1..(k - 1) :
                    Includes(columnKeys, CopyCandidate(lastOp'.key, j)) ]_vars

\* a second copy of amount, named "amount (copy 2)" because "amount (copy)"
\* was taken
C12_Witness ==
    /\ lastOp.op = "duplicateColumn"
    /\ lastOp.ok
    /\ lastOp.key = S_amount
    /\ lastOp.name = CopyCandidate(S_amount, 2)
    /\ Includes(columnKeys, CopyCandidate(S_amount, 1))

\* C13: duplicateColumn on a current column inserts exactly one new column at
\* index(source) + 1, with the type and options of the source; the source and
\* all other columns keep their relative order and contents.
C13_CopyRightOfSource ==
    [][ (lastOp'.op = "duplicateColumn" /\ Includes(columnKeys, lastOp'.key))
        => LET p == IndexOf(columnKeys, lastOp'.key)
               source == columnConfigs[p + 1]
               copy == columnConfigs'[p + 2]
           IN /\ Len(columnConfigs') = Len(columnConfigs) + 1
              /\ copy.key = lastOp'.name
              /\ copy.type = source.type
              /\ copy.hasOptions = source.hasOptions
              /\ copy.options = source.options
              /\ \A i \in 1..Len(columnConfigs) :
                    columnConfigs'[IF i <= p + 1 THEN i ELSE i + 1] = columnConfigs[i] ]_vars

\* a select column copied with its options A, B, the copy standing right of
\* its source and left of a later column
C13_Witness ==
    /\ lastOp.op = "duplicateColumn"
    /\ lastOp.ok
    /\ FindConfig(lastOp.name).type = "select"
    /\ FindConfig(lastOp.name).options = << <<"A">>, <<"B">> >>
    /\ IndexOf(columnKeys, lastOp.name) = IndexOf(columnKeys, lastOp.key) + 1
    /\ IndexOf(columnKeys, lastOp.name) + 1 < Len(columnKeys)

AmountDuplicatedTwice ==
    /\ lastOp.op = "duplicateColumn" /\ lastOp.ok
    /\ lastOp.key = S_amount
    /\ lastOp.name = CopyCandidate(S_amount, 1)
    /\ lastOp'.op = "duplicateColumn" /\ lastOp'.ok
    /\ lastOp'.key = S_amount
    /\ lastOp'.name = CopyCandidate(S_amount, 2)

\* C15 as stated: calling duplicateColumn("amount") twice in succession yields
\* the columns amount, "amount (copy)", "amount (copy 2)" in that left-to-right
\* order.
C15_CopiesInCallOrder ==
    [][ AmountDuplicatedTwice
        => /\ IndexOf(columnKeys', S_amount)
                 < IndexOf(columnKeys', CopyCandidate(S_amount, 1))
           /\ IndexOf(columnKeys', CopyCandidate(S_amount, 1))
                 < IndexOf(columnKeys', CopyCandidate(S_amount, 2)) ]_vars

\* C15, amended: calling duplicateColumn("amount") twice in succession yields
\* the columns amount, "amount (copy 2)", "amount (copy)" in that left-to-right
\* order: each copy is put immediately right of amount, so the second copy
\* stands between amount and the first copy.
C15_CopiesNextToSource ==
    [][ AmountDuplicatedTwice
        => LET p == IndexOf(columnKeys', S_amount)
           IN /\ Len(columnKeys') >= p + 3
              /\ columnKeys'[p + 2] = CopyCandidate(S_amount, 2)
              /\ columnKeys'[p + 3] = CopyCandidate(S_amount, 1) ]_vars

\* the table of page.tsx after the two calls
C15_Witness ==
    /\ lastOp.op = "duplicateColumn"
    /\ lastOp.ok
    /\ lastOp.key = S_amount
    /\ columnKeys = <<S_status, S_email, S_amount, CopyCandidate(S_amount, 2),
                      CopyCandidate(S_amount, 1)>>

\* a step that appends one column of type t and fills every row with the
\* default value of t under the new key
AppendsColumnOfType(t) ==
    LET n == Len(columnConfigs)
    IN /\ Len(columnConfigs') = n + 1
       /\ SubSeq(columnConfigs', 1, n) = columnConfigs
       /\ columnConfigs'[n + 1].type = t
       /\ ~Includes(columnKeys, columnConfigs'[n + 1].key)
       /\ Len(rows') = Len(rows)
       /\ \A i \in 1..Len(rows) :
             /\ columnConfigs'[n + 1].key \in DOMAIN rows'[i]
             /\ rows'[i][columnConfigs'[n + 1].key] = getDefaultValue(t)

\* C16 as stated: for every ColumnType t, select included, quickAddColumn(t)
\* appends exactly one new column of type t as the last column and sets every
\* row's value under the new key to defaultValue(t).
C16_QuickAddAppendsEveryType ==
    [][ \A t \in ColumnType : HandleQuickAdd(t) => AppendsColumnOfType(t) ]_vars

\* C16, amended: for every ColumnType t other than select, quickAddColumn(t)
\* appends exactly one new column of type t as the last column and sets every
\* row's value under the new key to defaultValue(t); quickAddColumn(select)
\* adds no column and changes no row: it opens the column dialog for an insert
\* right of the last column with the type select chosen.
C16_QuickAddAppends ==
    [][ /\ \A t \in ColumnType \ {"select"} :
              HandleQuickAdd(t) => AppendsColumnOfType(t)
        /\ HandleQuickAdd("select")
              => /\ columnConfigs' = columnConfigs
                 /\ rows' = rows
                 /\ pendingAction'.type = "insert"
                 /\ pendingAction'.side = "right"
                 /\ pendingAction'.key =
                       (IF columnKeys = <<>> THEN EmptyStr
                        ELSE columnKeys[Len(columnKeys)])
                 /\ dialogType' = "select" ]_vars

\* a checkbox column added last from the menu, every row holding false
C16_Witness ==
    /\ lastOp.op = "quickAddColumn"
    /\ lastOp.ok
    /\ Len(columnConfigs) > 1
    /\ columnConfigs[Len(columnConfigs)] =
          Config(COLUMN_TYPE_LABELS["checkbox"], "checkbox", FALSE, <<>>)
    /\ Len(rows) > 0
    /\ \A i \in 1..Len(rows) :
          Get(rows[i], COLUMN_TYPE_LABELS["checkbox"]) = Bool(FALSE)

\* the k-th name quickAddColumn(t) tries: label(t), "label(t) 2", ...
QuickAddCandidate(t, k) ==
    IF k = 1 THEN COLUMN_TYPE_LABELS[t]
    ELSE COLUMN_TYPE_LABELS[t] \o <<" ">> \o NatToString(k)

S_Text == <<"T", "e", "x", "t">>
S_Text2 == <<"T", "e", "x", "t", " ", "2">>

\* a step that creates a column from the menu names it with the first
\* candidate that is no current column key
QuickAddFirstFree ==
    \A t \in ColumnType \ {"select"} :
        HandleQuickAdd(t)
        => \E k \in 1..(Len(columnKeys) + 1) :
              /\ columnKeys'[Len(columnKeys')] = QuickAddCandidate(t, k)
              /\ ~Includes(columnKeys, QuickAddCandidate(t, k))
              /\ \A j \in 1..(k - 1) :
                    Includes(columnKeys, QuickAddCandidate(t, j))

\* the second of two successive quickAddColumn("text") calls, the first of
\* which found no column "Text" and so created it
SecondTextQuickAdd ==
    /\ lastOp.op = "quickAddColumn" /\ lastOp.ok
    /\ lastOp.name = S_Text
    /\ HandleQuickAdd("text")

\* C17 as stated: quickAddColumn(t) names the new column with the first
\* candidate of label(t), "label(t) 2", "label(t) 3", ... that is no current
\* column key; two successive calls quickAddColumn("text") on a table without
\* a column "Text" create "Text" and then "Text 2".
C17_TextThenTextTwo ==
    [][ /\ QuickAddFirstFree
        /\ SecondTextQuickAdd => lastOp'.name = S_Text2 ]_vars

\* C17, amended: quickAddColumn(t) names the new column with the first
\* candidate of label(t), "label(t) 2", "label(t) 3", ... that is no current
\* column key; two successive calls quickAddColumn("text") on a table with
\* neither a column "Text" nor a column "Text 2" create "Text" and then
\* "Text 2", as the last two columns.
C17_QuickAddNameFirstFree ==
    [][ /\ QuickAddFirstFree
        /\ (SecondTextQuickAdd /\ ~Includes(columnKeys, S_Text2))
           => /\ lastOp'.name = S_Text2
              /\ SubSeq(columnKeys', Len(columnKeys') - 1, Len(columnKeys'))
                    = <<S_Text, S_Text2>> ]_vars

\* "Text" and "Text 2" created by two successive calls on the table of page.tsx
C17_Witness ==
    /\ steps = 2
    /\ lastOp.op = "quickAddColumn"
    /\ lastOp.ok
    /\ columnKeys = <<S_status, S_email, S_amount, S_Text, S_Text2>>

\* C18: deleteColumn(key) removes exactly the column entry with that key, keeps
\* the relative order and contents of the remaining columns, and leaves the
\* rows completely unchanged: each row keeps its entry under the deleted key.
C18_DeleteKeepsRows ==
    [][ (lastOp'.op = "deleteColumn" /\ Includes(columnKeys, lastOp'.key))
        => LET p == IndexOf(columnKeys, lastOp'.key)
           IN /\ Len(columnConfigs') = Len(columnConfigs) - 1
              /\ \A i \in 1..Len(columnConfigs') :
                    columnConfigs'[i] = columnConfigs[IF i <= p THEN i ELSE i + 1]
              /\ rows' = rows ]_vars

\* email deleted from [status, email, amount]; the demo row still holds its
\* email entry
C18_Witness ==
    /\ lastOp.op = "deleteColumn"
    /\ lastOp.ok
    /\ lastOp.key = S_email
    /\ columnConfigs = <<initialColumns[1], initialColumns[3]>>
    /\ rows = <<demoRow>>
    /\ Get(rows[1], S_email) = Str(S_mail)

\* C19: hideColumn(key), toggleSort(key) and setAggregateMode(key, mode) leave
\* the model unchanged: the column list (keys, types, options, order) and the
\* row sequence (order, identifiers and all values) are the same before and
\* after each of them.
C19_ViewOpsKeepModel ==
    [][ lastOp'.op \in {"hideColumn", "toggleSort", "setAggregateMode"}
        => (columnConfigs' = columnConfigs /\ rows' = rows) ]_vars

\* the table of page.tsx sorted by one column, with an aggregate mode chosen
\* and a column hidden, its columns and its row as they were
C19_Witness ==
    /\ lastOp.op \in {"hideColumn", "toggleSort", "setAggregateMode"}
    /\ sorting # <<>>
    /\ DOMAIN aggregateModes # {}
    /\ \E key \in ColumnKeySet : ~IsVisible(key)
    /\ columnConfigs = initialColumns
    /\ rows = <<demoRow>>

\* C20: addRow appends exactly one row at the end of the row sequence; the new
\* row's identifier differs from the identifier of every existing row, the new
\* row holds the default value of the type under every current column key,
\* and the earlier rows and the column list are unchanged.
C20_AddRowAppendsFreshRow ==
    [][ lastOp'.op = "addRow"
        => LET n == Len(rows)
           IN /\ Len(rows') = n + 1
              /\ SubSeq(rows', 1, n) = rows
              /\ columnConfigs' = columnConfigs
              /\ \A j \in 1..Len(columnConfigs) :
                    Get(rows'[n + 1], columnConfigs[j].key)
                       = getDefaultValue(columnConfigs[j].type)
              /\ \A i \in 1..n : getRowId(rows'[n + 1]) # getRowId(rows[i]) ]_vars

\* C21: deleteRows(ids) removes exactly the rows whose identifier is in ids:
\* every other row remains, with unchanged values and in the same relative
\* order, the column list is unchanged, and afterwards the row selection
\* references no removed identifier.
C21_DeleteRowsExactly ==
    [][ lastOp'.op = "deleteRows"
        => LET ids == {getRowId(rows[i]) :
                         i \in {j \in 1..Len(rows) : getRowId(rows[j]) \in rowSelection}}
           IN /\ rows' = SelectSeq(rows, LAMBDA row : getRowId(row) \notin ids)
              /\ \A i \in 1..Len(rows') : getRowId(rows'[i]) \notin ids
              /\ columnConfigs' = columnConfigs
              /\ rowSelection' \cap ids = {} ]_vars

\* of the two rows with the identifiers "728" and "r2" the first was selected
\* and deleted
C21_Witness ==
    /\ steps = 2
    /\ lastOp.op = "deleteRows"
    /\ rows = << Put(EmptyObject, S_id, Str(S_r2)) >>
    /\ rowSelection = {}

\* C22: setCellValue on a row and key overwrites that row's entry for key with
\* the given value, whatever the value's type and whether or not the key names
\* a column or an entry of the row, and changes nothing else: every other row,
\* every other entry of the row, the number and order of rows and the column
\* list are unchanged.
C22_SetCellValueOnly ==
    [][ \A rowIndex \in 0..(Len(rows) - 1), key \in ActionKeys, value \in CellInputs :
            SetCellValue(rowIndex, key, value)
            => /\ Len(rows') = Len(rows)
               /\ columnConfigs' = columnConfigs
               /\ \A i \in 1..Len(rows) :
                     IF i = rowIndex + 1
                     THEN /\ DOMAIN rows'[i] = (DOMAIN rows[i]) \cup {key}
                          /\ rows'[i][key] = value
                          /\ \A k \in (DOMAIN rows[i]) \ {key} : rows'[i][k] = rows[i][k]
                     ELSE rows'[i] = rows[i] ]_vars

\* the second of two rows was given the text "7" under a key that names no
\* column; the first row is as it was
C22_Witness ==
    /\ lastOp.op = "setCellValue"
    /\ lastOp.key = S_ghost
    /\ Len(rows) = 2
    /\ rows[1] = Put(EmptyObject, S_id, Str(S_r1))
    /\ rows[2] = Put(Put(EmptyObject, S_id, Str(S_r2)), S_ghost, Str(<<"7">>))

\* C23: toggleSort(key) applied repeatedly to the same key cycles
\* unsorted -> {key, ascending} -> {key, descending} -> unsorted.
C23_SortCycle ==
    [][ \A key \in ColumnKeySet :
            OnSort(key)
            => /\ sorting = <<>>
                    => sorting' = << [id |-> key, desc |-> FALSE] >>
               /\ sorting = << [id |-> key, desc |-> FALSE] >>
                    => sorting' = << [id |-> key, desc |-> TRUE] >>
               /\ sorting = << [id |-> key, desc |-> TRUE] >>
                    => sorting' = <<>> ]_vars

\* the third toggleSort("amount") in a row on the table of page.tsx: unsorted
\* again
C23_Witness ==
    /\ steps = 3
    /\ lastOp.op = "toggleSort"
    /\ lastOp.key = S_amount
    /\ sorting = <<>>
    /\ columnConfigs = initialColumns
    /\ columnVisibility = EmptyObject
    /\ aggregateModes = EmptyObject

\* C24: toggleSort(key) while a descriptor on a different column is active, in
\* either direction, replaces it with {key, ascending}; in every state at most
\* one sort descriptor is active.
C24_OneSortDescriptor ==
    [][ /\ \A key \in ColumnKeySet :
              ( /\ OnSort(key)
                /\ sorting # <<>>
                /\ \A i \in 1..Len(sorting) : sorting[i].id # key )
              => sorting' = << [id |-> key, desc |-> FALSE] >>
        /\ Len(sorting) <= 1
        /\ Len(sorting') <= 1 ]_vars

\* toggleSort("email") as the second call on the table of page.tsx, after a
\* toggleSort of another column: email ascending is the one descriptor
C24_Witness ==
    /\ steps = 2
    /\ lastOp.op = "toggleSort"
    /\ lastOp.key = S_email
    /\ sorting = << [id |-> S_email, desc |-> FALSE] >>
    /\ columnConfigs = initialColumns
    /\ columnVisibility = EmptyObject
    /\ aggregateModes = EmptyObject

\* the keys that name a column or carry an aggregate mode before or after a step
ModeKeys ==
    ColumnKeySet \cup {columnKeys'[i] : i \in 1..Len(columnKeys')}
       \cup DOMAIN aggregateModes \cup DOMAIN aggregateModes'

\* C27: the aggregate mode of a column key is sum until a mode is selected for
\* it; setAggregateMode(key, m) sets the mode of that key to m and leaves the
\* mode of every other key unchanged.
C27_AggregateModePerKey ==
    /\ \A key \in ColumnKeySet : AggregateModeOf(aggregateModes, key) = "sum"
    /\ [][ /\ \A key \in ModeKeys :
                 AggregateModeOf(aggregateModes', key)
                    # AggregateModeOf(aggregateModes, key)
                 => (lastOp'.op = "setAggregateMode" /\ lastOp'.key = key)
           /\ \A key \in ColumnKeySet, m \in AggregateMode :
                 SetAggregateMode(key, m)
                 => AggregateModeOf(aggregateModes', key) = m ]_vars

\* amount shows its median and the added column Number its average
C27_Witness ==
    /\ lastOp.op = "setAggregateMode"
    /\ AggregateModeOf(aggregateModes, S_amount) = "median"
    /\ AggregateModeOf(aggregateModes, COLUMN_TYPE_LABELS["number"]) = "average"
    /\ AggregateModeOf(aggregateModes, S_email) = "sum"
    /\ Includes(columnKeys, COLUMN_TYPE_LABELS["number"])

\* C28: in every reachable state a column has options only if its type is
\* select.
C28_OptionsOnlyForSelect ==
    \A i \in 1..Len(columnConfigs) :
        columnConfigs[i].type # "select"
        => (~columnConfigs[i].hasOptions /\ columnConfigs[i].options = <<>>)

\* the select column Tag, which had the options A and B, was given another
\* type in the edit dialog
C28_Witness ==
    /\ lastOp.op = "renameColumn"
    /\ lastOp.ok
    /\ lastOp.key = S_Tag
    /\ Includes(columnKeys, S_Tag)
    /\ FindConfig(S_Tag).type # "select"
    /\ ~FindConfig(S_Tag).hasOptions

\* the number and currency columns whose footer shows an aggregate
AggregateColumns ==
    {i \in 1..Len(columnConfigs) : FooterCell(columnConfigs[i]).kind = "aggregate"}

RECURSIVE SumAt(_, _)
SumAt(values, indices) ==
    IF indices = {} THEN 0
    ELSE LET i == CHOOSE i \in indices : TRUE
         IN values[i] + SumAt(values, indices \ {i})

Below(values, v) == Cardinality({k \in 1..Len(values) : values[k] < v})
UpTo(values, v) == Cardinality({k \in 1..Len(values) : values[k] <= v})

\* v stands at position pos (from 1) of the values in ascending order
StandsAt(values, v, pos) ==
    /\ \E k \in 1..Len(values) : values[k] = v
    /\ Below(values, v) < pos
    /\ UpTo(values, v) >= pos

\* C25: over the values that survive in a footer, computeAggregate returns
\* their sum for "sum", the sum divided by the count for "average", for
\* "median" the middle value in ascending order when the count is odd and the
\* mean of the two middle values when it is even, and 0 for every mode when
\* there is no value; sum([1,2,3]) = 6, average([1,2,3]) = 2 and
\* median([1,2,3,4]) = 2.5.
C25_ComputeAggregate ==
    /\ computeAggregate(<<1, 2, 3>>, "sum") = [num |-> 6, den |-> 1]
    /\ computeAggregate(<<1, 2, 3>>, "average") = [num |-> 2, den |-> 1]
    /\ computeAggregate(<<1, 2, 3, 4>>, "median") = [num |-> 5, den |-> 2]
    /\ \A i \in AggregateColumns :
          LET values == FooterValues(columnConfigs[i])
              count == Len(values)
              total == SumAt(values, 1..count)
              sum == computeAggregate(values, "sum")
              average == computeAggregate(values, "average")
              median == computeAggregate(values, "median")
          IN IF count = 0
             THEN \A m \in AggregateMode :
                      computeAggregate(values, m) = [num |-> 0, den |-> 1]
             ELSE /\ sum = [num |-> total, den |-> 1]
                  /\ average.den > 0
                  /\ average.num * count = total * average.den
                  /\ median.den > 0
                  /\ IF count % 2 = 1
                     THEN /\ median.den = 1
                          /\ StandsAt(values, median.num, (count + 1) \div 2)
                     ELSE \E a, b \in {values[k] : k \in 1..count} :
                             /\ StandsAt(values, a, count \div 2)
                             /\ StandsAt(values, b, (count \div 2) + 1)
                             /\ median.num * 2 = (a + b) * median.den

\* the footer of "amount" shows the median 2.5 of the cells 4, 2, 1 and "3"
C25_Witness ==
    /\ lastOp.op = "setAggregateMode"
    /\ \E i \in AggregateColumns :
          /\ FooterValues(columnConfigs[i]) = <<4, 2, 1, 3>>
          /\ AggregateModeOf(aggregateModes, columnConfigs[i].key) = "median"
          /\ FooterResult(columnConfigs[i]) = [num |-> 5, den |-> 2]

\* the rows whose cell under the key is a number after coercion
ParsedRows(key) == {r \in 1..Len(rows) : ~ToNumber(Get(rows[r], key)).nan}

\* C26: a footer shows an aggregate only for a column of type number or
\* currency, and the values it aggregates are the cells of all current rows
\* under the column's key, coerced to numbers, without those that are no
\* number: each number occurs as often as there are rows that hold it, so
\* the dropped cells add nothing to the sum and nothing to the count by which
\* the average divides.
C26_FooterValues ==
    \A i \in AggregateColumns :
        LET config == columnConfigs[i]
            values == FooterValues(config)
            parsed == ParsedRows(config.key)
            total == SumAt([r \in 1..Len(rows) |-> ToNumber(Get(rows[r], config.key)).n],
                           parsed)
            average == computeAggregate(values, "average")
        IN /\ config.type \in {"number", "currency"}
           /\ Len(values) = Cardinality(parsed)
           /\ \A v \in {values[k] : k \in 1..Len(values)} :
                 Cardinality({k \in 1..Len(values) : values[k] = v})
                 = Cardinality({r \in parsed : ToNumber(Get(rows[r], config.key)).n = v})
           /\ computeAggregate(values, "sum") = [num |-> total, den |-> 1]
           /\ parsed # {} => average.num * Cardinality(parsed) = total * average.den

\* the footer of "amount" shows the average 1.5 of the cells 1, "x" and 2,
\* and the text column with the cells "3" shows none
C26_Witness ==
    /\ lastOp.op = "setAggregateMode"
    /\ Len(rows) = 3
    /\ \E i \in AggregateColumns :
          /\ ParsedRows(columnConfigs[i].key) = {1, 3}
          /\ FooterValues(columnConfigs[i]) = <<1, 2>>
          /\ FooterCell(columnConfigs[i]).mode = "average"
          /\ FooterCell(columnConfigs[i]).result = [num |-> 3, den |-> 2]
    /\ \E j \in 1..Len(columnConfigs) :
          /\ FooterCell(columnConfigs[j]).kind = "empty"
          /\ ParsedRows(columnConfigs[j].key) = {1, 2, 3}

\* C29: formatCellValue returns the empty string for each of the ten column
\* types when the value is null, undefined or the empty string.
C29_EmptyValueFormatsEmpty ==
    (formatCall.called /\ formatCall.value \in {Null, Undefined, Str(EmptyStr)})
    => formatCall.result = EmptyStr

\* formatCellValue(null, "currency") has returned ""
C29_Witness ==
    /\ formatCall.called
    /\ formatCall.value = Null
    /\ formatCall.type = "currency"
    /\ formatCall.result = EmptyStr

RECURSIVE StripNonDigits(_)
StripNonDigits(str) ==
    IF str = <<>> THEN <<>>
    ELSE IF Head(str) \in {DigitChar(d) : d \in 0..9}
         THEN <<Head(str)>> \o StripNonDigits(Tail(str))
         ELSE StripNonDigits(Tail(str))

\* C30: for a value that is not empty, formatCellValue(value, "phone") takes
\* the digits of the value: exactly 10 digits give "(AAA) BBB-CCCC", exactly
\* 11 digits of which the first is 1 give "+1 (AAA) BBB-CCCC" from the last
\* ten, and every other number of digits, also 11 digits that start with
\* another digit, gives the value as it was passed in.
C30_PhoneFormat ==
    /\ formatCellValue(Str(<<"5", "5", "5", "1", "2", "3", "4", "5", "6", "7">>), "phone", FALSE)
          = <<"(", "5", "5", "5", ")", " ", "1", "2", "3", "-", "4", "5", "6", "7">>
    /\ formatCellValue(Str(<<"1", "5", "5", "5", "1", "2", "3", "4", "5", "6", "7">>), "phone", FALSE)
          = <<"+", "1", " ", "(", "5", "5", "5", ")", " ", "1", "2", "3", "-", "4", "5", "6", "7">>
    /\ formatCellValue(Str(<<"1", "2", "3">>), "phone", FALSE) = <<"1", "2", "3">>
    /\ (/\ formatCall.called
        /\ formatCall.type = "phone"
        /\ formatCall.value \notin {Null, Undefined, Str(EmptyStr)})
       => LET raw == StringOf(formatCall.value)
              d == StripNonDigits(raw)
          IN IF Len(d) = 10
             THEN formatCall.result
                  = <<"(", d[1], d[2], d[3], ")", " ", d[4], d[5], d[6], "-",
                      d[7], d[8], d[9], d[10]>>
             ELSE IF Len(d) = 11 /\ d[1] = "1"
                  THEN formatCall.result
                       = <<"+", "1", " ", "(", d[2], d[3], d[4], ")", " ",
                           d[5], d[6], d[7], "-", d[8], d[9], d[10], d[11]>>
                  ELSE formatCall.result = raw

\* formatCellValue("1555-123-4567", "phone") has returned "+1 (555) 123-4567"
C30_Witness ==
    /\ formatCall.called
    /\ formatCall.type = "phone"
    /\ formatCall.value = Str(<<"1", "5", "5", "5", "-", "1", "2", "3", "-", "4", "5", "6", "7">>)
    /\ formatCall.result = <<"+", "1", " ", "(", "5", "5", "5", ")", " ", "1", "2", "3", "-", "4", "5", "6", "7">>

\* C31: getDefaultValue is false for checkbox and the empty string for each
\* of the nine other types, and that is the value every row holds under a
\* column that the add-column menu or the dialog has just created.
C31_DefaultValue ==
    /\ \A type \in ColumnType :
          getDefaultValue(type)
          = (IF type = "checkbox" THEN Bool(FALSE) ELSE Str(EmptyStr))
    /\ (lastOp.op \in {"insertColumn", "quickAddColumn"} /\ lastOp.ok)
       => \A i \in 1..Len(rows) :
             Get(rows[i], lastOp.name)
             = (IF FindConfig(lastOp.name).type = "checkbox" THEN Bool(FALSE)
                ELSE Str(EmptyStr))

\* the menu has added a Checkbox column and then a Number column: the rows
\* hold false under the first and "" under the second
C31_Witness ==
    /\ lastOp.op = "quickAddColumn"
    /\ lastOp.ok
    /\ lastOp.name = COLUMN_TYPE_LABELS["number"]
    /\ Includes(columnKeys, COLUMN_TYPE_LABELS["checkbox"])
    /\ Len(rows) > 0
    /\ \A i \in 1..Len(rows) :
          /\ Get(rows[i], COLUMN_TYPE_LABELS["checkbox"]) = Bool(FALSE)
          /\ Get(rows[i], COLUMN_TYPE_LABELS["number"]) = Str(EmptyStr)

\* C32: in every reachable state each sort descriptor names the key of a
\* current column, so none is left for a key that deleteColumn or a renaming
\* has removed.
C32_SortNamesColumn ==
    \A i \in 1..Len(sorting) : Includes(columnKeys, sorting[i].id)

\* C33: a column that insertColumn, quickAddColumn or duplicateColumn has just
\* created, or that renameColumn has just given a new key, is visible and has
\* the aggregate mode sum, whatever happened to an earlier column of that key.
C33_FreshViewState ==
    ( /\ lastOp.ok
      /\ \/ lastOp.op \in {"insertColumn", "quickAddColumn", "duplicateColumn"}
         \/ lastOp.op = "renameColumn" /\ lastOp.name # lastOp.key )
    => /\ IsVisible(lastOp.name)
       /\ AggregateModeOf(aggregateModes, lastOp.name) = "sum"

\* C34: a renameColumn, insertColumn, duplicateColumn, quickAddColumn,
\* deleteColumn or hideColumn call, accepted or rejected, leaves the number
\* of rows as it was and each row in its place: the row at every position
\* is the row that stood there before, apart from its entries under the old
\* and the new key of the call.
C34_ColumnOpsKeepRowOrder ==
    [][ lastOp'.op \in ColumnOps
        => /\ Len(rows') = Len(rows)
           /\ \A i \in 1..Len(rows) :
                 \A k \in (DOMAIN rows[i] \cup DOMAIN rows'[i])
                              \ {lastOp'.key, lastOp'.name} :
                    Get(rows'[i], k) = Get(rows[i], k) ]_vars

\* a column was added to the table of two rows, which are still the rows
\* "728" and "r2" in that order
C34_Witness ==
    /\ lastOp.op = "quickAddColumn"
    /\ lastOp.ok
    /\ Len(rows) = 2
    /\ lastOp.name \in DOMAIN rows[1]
    /\ RowIds = <<S_r1, S_r2>>

\* C35: addRow leaves the average and the median that the footer shows for a
\* number or currency column as they were, the new row's cell being unset.
C35_AddRowKeepsAggregates ==
    [][ lastOp'.op = "addRow"
        => \A i \in AggregateColumns :
              AggregateModeOf(aggregateModes, columnConfigs[i].key)
                 \in {"average", "median"}
              => FooterResult(columnConfigs[i])' = FooterResult(columnConfigs[i]) ]_vars

\* C36: when quickAddColumn for one type, or duplicateColumn for one source,
\* is dispatched twice from the same render, the two columns added have
\* different keys and the keys of the column list are pairwise distinct.
C36_SameSnapshotKeysDistinct ==
    (lastOp.op \in {"quickAddColumnTwice", "duplicateColumnTwice"} /\ lastOp.ok)
    => \A i, j \in 1..Len(columnConfigs) :
          i # j => columnConfigs[i].key # columnConfigs[j].key

\* a submit of the dialog as it stands is turned down: nothing is pending, the
\* trimmed name is empty, or the name is taken by another column
SubmitTurnedDown ==
    \/ pendingAction.type = "none"
    \/ Trim(dialogInput) = EmptyStr
    \/ /\ Includes(columnKeys, Trim(dialogInput))
       /\ ~(pendingAction.type = "edit" /\ Trim(dialogInput) = pendingAction.key)

\* C37: a submit that is turned down changes neither the pending action, the
\* name, the type and the options of the dialog nor the columns and rows; a
\* submit that is accepted leaves a column with the submitted name and type
\* (for an edit: if the edited key is a column) and closes the dialog, with no
\* pending action, an empty name, the type text and no options.
C37_DialogProtocol ==
    [][ lastOp'.op \in {"renameColumn", "insertColumn", "submit"}
        => IF SubmitTurnedDown
           THEN /\ ~lastOp'.ok
                /\ UNCHANGED <<pendingAction, dialogInput, dialogType, dialogOptions,
                               columnConfigs, rows>>
           ELSE /\ lastOp'.ok
                /\ pendingAction' = NoAction
                /\ dialogInput' = EmptyStr
                /\ dialogType' = "text"
                /\ dialogOptions' = <<>>
                /\ (pendingAction.type = "insert" \/ Includes(columnKeys, pendingAction.key))
                   => \E i \in 1..Len(columnConfigs') :
                         /\ columnConfigs'[i].key = Trim(dialogInput)
                         /\ columnConfigs'[i].type = dialogType ]_vars

\* an insert dialog whose type was set to select has been accepted and closed
C37_Witness ==
    /\ lastOp.op = "insertColumn"
    /\ lastOp.ok
    /\ pendingAction = NoAction
    /\ dialogInput = EmptyStr
    /\ dialogType = "text"
    /\ dialogOptions = <<>>
    /\ Includes(columnKeys, lastOp.name)
    /\ FindConfig(lastOp.name).type = "select"

\* the edit dialog was opened on a current column by the last call and is
\* submitted by this one, nothing having been changed in it
EditSubmittedUntouched ==
    /\ lastOp.op = "onEdit"
    /\ Includes(columnKeys, lastOp.key)
    /\ lastOp'.op = "renameColumn"

C39_PhoneEditor ==
    /\ [](\A i \in 1..Len(rows), j \in 1..Len(columnConfigs) :
            LET value == Get(rows[i], columnConfigs[j].key)
            IN (columnConfigs[j].type = "phone"
                /\ Len(StripNonDigits(StringOf(value))) = 10)
               => PhoneEditorText(value) = formatCellValue(value, "phone", FALSE))
    /\ [][ \A rowIndex \in 0..(Len(rows) - 1), key \in ColumnKeySet, raw \in PhoneTyped :
              PhoneInput(rowIndex, key, raw)
              => LET written == Get(rows'[rowIndex + 1], key)
                 IN /\ written.t = "string"
                    /\ Len(written.s) <= 10
                    /\ \A k \in 1..Len(written.s) :
                          written.s[k] \in {DigitChar(d) : d \in 0..9} ]_vars

\* an input of more than ten digits was cut to the ten digits 1555123456,
\* which the editor shows as "(155) 512-3456"
C39_Witness ==
    /\ lastOp.op = "setCellValue"
    /\ Len(rows) = 1
    /\ Get(rows[1], COLUMN_TYPE_LABELS["phone"]) = Str(<<"1", "5", "5", "5", "1", "2", "3", "4", "5", "6">>)
    /\ PhoneEditorText(Get(rows[1], COLUMN_TYPE_LABELS["phone"]))
          = <<"(", "1", "5", "5", ")", " ", "5", "1", "2", "-", "3", "4", "5", "6">>

====
